---- MODULE Spec2Model ----
(***************************************************************************)
(* A model of dn-ioc's resolution engine (src/ioc.ts): provide(),          *)
(* runInInjectionContext(), resetGlobalInstances() and the inject          *)
(* capability implemented by injectInternal().                             *)
(*                                                                         *)
(* JavaScript runs one call stack to completion; `frames` is that call     *)
(* stack (one frame per factory under construction), `microtasks` the      *)
(* promise-reaction queue and `suspended` the async factories parked at an *)
(* await.  While `frames` is non-empty only the steps of the running       *)
(* factory are enabled.                                                    *)
(***************************************************************************)
EXTENDS Integers, Sequences, FiniteSets, TLC

\* Bounds of the exploration.
MaxCalls == 2
MaxRoots == 2
MaxResets == 1

\* "No provider": an absent `overrides` option, a miss in a Map of refs.
NoRef == "-"
\* "No error".
NoErr == "-"

(***************************************************************************)
(* The providers: the refs created by provide() before anything runs.      *)
(* A ref is compared by identity, which is its name here.  Each world is   *)
(* one program (one set of provide() calls).                               *)
(***************************************************************************)
Worlds == {"basic", "async", "retry", "cycle", "cycle3", "diamond", "sdiamond",
           "override", "deep", "nested", "tenant",
           "captured", "acycle", "nestedrun", "modes",
           "selfkey", "late", "reenter", "selfawait",
           "keeper", "contend", "crosswait",
           "reglobal", "delegate", "chain", "lastwins"}

WorldRefs(w) ==
  CASE w = "basic"    -> {"counterRef", "standaloneRef", "asyncStandaloneRef"}
    [] w = "async"    -> {"asyncRef", "flakyRef"}
    [] w = "retry"    -> {"lateFlakyRef", "errorRef", "wrapperRef"}
    [] w = "cycle"    -> {"ServiceA", "ServiceB", "SelfRef", "NonCircular"}
    [] w = "cycle3"   -> {"A", "B", "C", "anonA", "anonB"}
    [] w = "diamond"  -> {"Base", "Left", "Right", "Top"}
    [] w = "sdiamond" -> {"SBase", "SLeft", "SRight", "STop"}
    [] w = "override" -> {"configRef", "serviceRef", "localConfig", "localServiceRef"}
    [] w = "deep"     -> {"cfg", "httpRef", "apiRef", "appRef", "testCfg"}
    [] w = "nested"   -> {"valueRef", "level1Ref", "level2Ref", "level1Value", "level2Value"}
    [] w = "tenant"   -> {"defaultTenantRef", "apiServiceRef", "tenant1AppRef",
                          "tenant2AppRef", "tenant1Ref", "tenant2Ref"}
    [] w = "captured" -> {"globalConfigRef", "getterRef", "localConfigRef", "lazyRef"}
    [] w = "acycle"   -> {"AsyncA", "AsyncB"}
    [] w = "nestedrun" -> {"baseRef", "hostRef", "hostValue", "plainRef", "sharedRef"}
    [] w = "modes"    -> {"globalParentRef", "standaloneDepRef",
                          "standaloneParentRef", "globalDepRef"}
    [] w = "selfkey"  -> {"originalRef", "newRef", "plainServiceRef"}
    [] w = "late"     -> {"holderRef", "workerRef"}
    [] w = "reenter"  -> {"reentrantRef"}
    [] w = "selfawait" -> {"selfAsyncRef", "loopRef", "middleRef"}
    [] w = "keeper"   -> {"keeperRef"}
    [] w = "contend"  -> {"contendedRef"}
    [] w = "reglobal" -> {"reentrantGlobalRef"}
    [] w = "crosswait" -> {"waitARef", "waitBRef"}
    [] w = "delegate" -> {"targetRef", "shadowRef", "shadowOwnerRef", "lateShadowRef",
                          "lateOwnerRef", "delegatingRef", "delegatingOwnerRef"}
    [] w = "chain"    -> {"baseValueRef", "firstLayerRef", "secondLayerRef",
                          "chainOwnerRef", "outerChainRef", "innerChainRef"}
    [] w = "lastwins" -> {"settingRef", "earlyRef", "lateRef", "pairOwnerRef",
                          "selfFirstOwnerRef", "selfLastOwnerRef"}

Refs == UNION {WorldRefs(w) : w \in Worlds}

\* options.mode || 'global'
StandaloneRefs == {"standaloneRef", "asyncStandaloneRef", "SBase", "httpRef", "apiRef",
                   "apiServiceRef", "lazyRef", "plainRef",
                   "standaloneDepRef", "standaloneParentRef", "reentrantRef",
                   "innerChainRef"}
ModeOf(p) == IF p \in StandaloneRefs THEN "standalone" ELSE "global"

\* options.providers
ProvidersOf(p) ==
  CASE p = "localServiceRef" -> <<"localConfig">>
    [] p = "appRef"          -> <<"testCfg">>
    [] p = "level1Ref"       -> <<"level1Value">>
    [] p = "level2Ref"       -> <<"level2Value">>
    [] p = "tenant1AppRef"   -> <<"tenant1Ref">>
    [] p = "tenant2AppRef"   -> <<"tenant2Ref">>
    [] p = "getterRef"       -> <<"localConfigRef">>
    [] p = "hostRef"         -> <<"hostValue">>
    [] p = "plainServiceRef" -> <<"newRef">>
    [] p = "shadowOwnerRef"  -> <<"shadowRef">>
    [] p = "lateOwnerRef"    -> <<"lateShadowRef">>
    [] p = "delegatingRef"   -> <<"targetRef">>
    [] p = "delegatingOwnerRef" -> <<"delegatingRef">>
    [] p = "chainOwnerRef"   -> <<"firstLayerRef", "secondLayerRef">>
    [] p = "outerChainRef"   -> <<"secondLayerRef">>
    [] p = "innerChainRef"   -> <<"firstLayerRef">>
    [] p = "pairOwnerRef"    -> <<"earlyRef", "lateRef">>
    [] p = "selfFirstOwnerRef" -> <<"settingRef", "earlyRef">>
    [] p = "selfLastOwnerRef" -> <<"lateRef", "settingRef">>
    [] OTHER                 -> <<>>

\* options.overrides
OverridesOf(p) ==
  CASE p = "localConfig" -> "configRef"
    [] p = "testCfg"     -> "cfg"
    [] p = "level1Value" -> "valueRef"
    [] p = "level2Value" -> "valueRef"
    [] p = "tenant1Ref"  -> "defaultTenantRef"
    [] p = "tenant2Ref"  -> "defaultTenantRef"
    [] p = "localConfigRef" -> "globalConfigRef"
    [] p = "hostValue"   -> "baseRef"
    [] p = "shadowRef"   -> "targetRef"
    [] p = "lateShadowRef" -> "targetRef"
    [] p = "delegatingRef" -> "targetRef"
    [] p = "firstLayerRef" -> "baseValueRef"
    [] p = "secondLayerRef" -> "firstLayerRef"
    [] p = "earlyRef"    -> "settingRef"
    [] p = "lateRef"     -> "settingRef"
    [] OTHER             -> NoRef

\* factory.name: the name of the function given to provide(), "" for an
\* arrow function.
NamedFactories == {"ServiceA", "ServiceB", "SelfRef", "A", "B", "C", "NonCircular",
                   "Base", "Left", "Right", "Top", "AsyncA", "AsyncB",
                   "shadowRef", "lateShadowRef", "delegatingRef"}
FactoryName(p) == IF p \in NamedFactories THEN p ELSE ""

\* Factories declared `async`: they return a promise whatever they do.
AsyncRefs == {"asyncRef", "flakyRef", "lateFlakyRef", "asyncStandaloneRef",
              "AsyncA", "AsyncB", "workerRef", "selfAsyncRef", "loopRef",
              "keeperRef", "contendedRef",
              "waitARef", "waitBRef", "lateShadowRef"}
IsAsync(p) == p \in AsyncRefs

(***************************************************************************)
(* What a factory does, as a list of steps: request a dependency through   *)
(* the inject it was passed, wait for an external event (a timer), await   *)
(* what the latest request returned, throw, request a dependency inside a  *)
(* runInInjectionContext of its own.                                       *)
(* A factory that reaches the end of its list returns a new object.  `inv` *)
(* is the number of this invocation of the factory (the tests' counters).  *)
(***************************************************************************)
Inj(q) == [op |-> "inject", ref |-> q]
Tick == [op |-> "tick", ref |-> NoRef]
Throw == [op |-> "throw", ref |-> NoRef]
AwaitDep == [op |-> "awaitdep", ref |-> NoRef]
RunIn(q) == [op |-> "runin", ref |-> q]

FactoryError == "Factory error"

Script(p, inv) ==
  CASE p = "asyncRef"           -> <<Tick>>
    [] p = "asyncStandaloneRef" -> <<Tick>>
    [] p = "flakyRef"           -> IF inv = 1 THEN <<Throw>> ELSE <<>>
    [] p = "lateFlakyRef"       -> IF inv = 1 THEN <<Tick, Throw>> ELSE <<Tick>>
    [] p = "errorRef"           -> IF inv = 1 THEN <<Throw>> ELSE <<>>
    [] p = "wrapperRef"         -> <<Inj("errorRef")>>
    [] p = "AsyncA"             -> <<Inj("AsyncB"), AwaitDep>>
    [] p = "AsyncB"             -> <<Inj("AsyncA"), AwaitDep>>
    [] p = "hostRef"            -> <<Inj("baseRef"), RunIn("baseRef"), RunIn("plainRef"),
                                     Inj("plainRef"), RunIn("sharedRef"), Inj("sharedRef")>>
    [] p = "ServiceA"           -> <<Inj("ServiceB")>>
    [] p = "ServiceB"           -> <<Inj("ServiceA")>>
    [] p = "SelfRef"            -> <<Inj("SelfRef")>>
    [] p = "anonA"              -> <<Inj("anonB")>>
    [] p = "anonB"              -> <<Inj("anonA")>>
    [] p = "A"                  -> <<Inj("B")>>
    [] p = "B"                  -> <<Inj("C")>>
    [] p = "C"                  -> <<Inj("A")>>
    [] p = "Left"               -> <<Inj("Base")>>
    [] p = "Right"              -> <<Inj("Base")>>
    [] p = "Top"                -> <<Inj("Left"), Inj("Right")>>
    [] p = "SLeft"              -> <<Inj("SBase")>>
    [] p = "SRight"             -> <<Inj("SBase")>>
    [] p = "STop"               -> <<Inj("SLeft"), Inj("SRight")>>
    [] p = "serviceRef"         -> <<Inj("configRef")>>
    [] p = "localServiceRef"    -> <<Inj("serviceRef")>>
    [] p = "httpRef"            -> <<Inj("cfg")>>
    [] p = "apiRef"             -> <<Inj("httpRef")>>
    [] p = "appRef"             -> <<Inj("apiRef")>>
    [] p = "level1Ref"          -> <<Inj("valueRef")>>
    [] p = "level2Ref"          -> <<Inj("level1Ref"), Inj("valueRef")>>
    [] p = "apiServiceRef"      -> <<Inj("defaultTenantRef")>>
    [] p = "tenant1AppRef"      -> <<Inj("apiServiceRef")>>
    [] p = "tenant2AppRef"      -> <<Inj("apiServiceRef")>>
    [] p = "globalParentRef"    -> <<Inj("standaloneDepRef")>>
    [] p = "holderRef"          -> <<Inj("workerRef")>>
    [] p = "reentrantRef"       -> IF inv = 1 THEN <<RunIn("reentrantRef")>> ELSE <<>>
    [] p = "workerRef"          -> <<Tick, Inj("holderRef")>>
    [] p = "keeperRef"          -> <<Tick>>
    [] p = "reentrantGlobalRef" -> IF inv = 1 THEN <<RunIn("reentrantGlobalRef")>> ELSE <<>>
    [] p = "waitARef"           -> <<Tick, Inj("waitBRef"), AwaitDep>>
    [] p = "waitBRef"           -> <<Tick, Inj("waitARef"), AwaitDep>>
    [] p = "contendedRef"       -> IF inv = 1 THEN <<Throw>> ELSE <<Tick>>
    [] p = "selfAsyncRef"       -> <<Tick, Inj("selfAsyncRef")>>
    [] p = "loopRef"            -> <<Tick, Inj("middleRef")>>
    [] p = "middleRef"          -> <<Inj("loopRef")>>
    [] p = "plainServiceRef"    -> <<Inj("originalRef"), Inj("newRef")>>
    [] p = "standaloneParentRef" -> <<Inj("globalDepRef")>>
    [] p = "shadowRef"          -> <<Inj("targetRef")>>
    [] p = "shadowOwnerRef"     -> <<Inj("targetRef")>>
    [] p = "lateShadowRef"      -> <<Tick, Inj("targetRef")>>
    [] p = "lateOwnerRef"       -> <<Inj("targetRef")>>
    [] p = "delegatingRef"      -> <<Inj("targetRef")>>
    [] p = "delegatingOwnerRef" -> <<Inj("targetRef")>>
    [] p = "chainOwnerRef"      -> <<Inj("baseValueRef")>>
    [] p = "outerChainRef"      -> <<Inj("innerChainRef")>>
    [] p = "innerChainRef"      -> <<Inj("baseValueRef")>>
    [] p = "pairOwnerRef"       -> <<Inj("settingRef")>>
    [] p = "selfFirstOwnerRef"  -> <<Inj("settingRef")>>
    [] p = "selfLastOwnerRef"   -> <<Inj("settingRef")>>
    [] OTHER                    -> <<>>


\* Factories whose result keeps the inject they were passed, and what the
\* result's methods ask it for when they are called later.
CapturedAsks(p) ==
  CASE p = "getterRef" -> {"globalConfigRef"}
    [] p = "lazyRef"   -> {"lazyRef"}
    [] p = "keeperRef" -> {"keeperRef"}
    [] OTHER           -> {}

(***************************************************************************)
(* The state.                                                              *)
(***************************************************************************)
VARIABLES
  world,            \* which program runs
  globalInstances,  \* the module's Map: ref -> object, NoObj for no entry
  heap,             \* ref -> its factory's invocations and what each made
  ctxs,             \* the InternalContexts alive, by identity
  resolvers,        \* the {inject, deactivate} pairs of makeInject alive
  frames,           \* the call stack: the factories now running
  suspended,        \* async factories parked at an await
  microtasks,       \* the queue of promise reactions
  last,             \* the latest inject call made from outside any factory
  ret,              \* ref -> what such a call last returned for it since a
                    \* reset, and the ref's count when that call began
  observed,         \* promises whose settlement the caller has been told of
  ncalls,           \* how many outside calls were made
  returned,         \* the root contexts whose runInInjectionContext call
                    \* has returned
  nresets           \* how many resets were made

vars == <<world, globalInstances, heap, ctxs, resolvers, frames, suspended,
          microtasks, last, ret, observed, ncalls, returned, nresets>>

\* The refs of the program that runs.
Provided == WorldRefs(world)

(***************************************************************************)
(* Objects, by identity.  The n-th invocation of p's factory makes at most *)
(* one result object ("inst") and, when the factory is async, one promise. *)
(***************************************************************************)
Obj(p, n, k) == [p |-> p, n |-> n, k |-> k]
NoObj == Obj(NoRef, 0, "none")

\* The tests' counters: how often p's factory was invoked.
count(p) == Len(heap[p])

\* All the invocations made so far, of whichever factory.
Invocations == UNION {{<<p, n>> : n \in DOMAIN heap[p]} : p \in Provided}

NoLast ==
  [ctx |-> 0, ref |-> NoRef, eff |-> NoRef, status |-> "none", val |-> NoObj,
   err |-> NoErr, cnt0 |-> 0, prev |-> NoObj, from0 |-> 0, prevRejected |-> FALSE,
   prevSeen |-> FALSE, cache0 |-> 0, hit0 |-> NoObj, prevStatus |-> "none",
   sameCtx |-> FALSE,
   captured |-> FALSE, used |-> {}, seen0 |-> NoObj, after |-> FALSE]

\* The promise of p, of those whose settlement a caller has been told of,
\* that the latest invocation made.
LatestSeen(p) ==
  LET S == {x \in observed : x.p = p}
  IN IF S = {} THEN NoObj ELSE CHOOSE x \in S : \A y \in S : y.n <= x.n

\* Nothing returned yet.
NoRet == [val |-> NoObj, from |-> 0]

\* A runInInjectionContext that makes its context a child of the context
\* of the factory it is called in.
ParentIsCaller ==
  IF frames = <<>> THEN 0
  ELSE LET f == frames[Len(frames)]
       IN resolvers[IF f.child # 0 THEN f.child ELSE f.inj].ctx

\* runInInjectionContext: createInternalContext(), no parent.
NoParent == 0

\* A context whose Map starts with what the Maps of the contexts alive
\* hold instead of empty.
createInternalContextSeeded(parent) ==
  [parent |-> parent,
   localProviders |->
     [q \in Provided |->
        LET found == {ctxs[c].localProviders[q] : c \in DOMAIN ctxs} \ {NoRef}
        IN IF found = {} THEN NoRef ELSE CHOOSE r \in found : TRUE]]

\* createInternalContext(parent): an empty Map and the parent link.
createInternalContext(parent) ==
  [parent |-> parent, localProviders |-> [q \in Provided |-> NoRef]]

\* A provide() that calls the factory at once.
provideEager(p) ==
  <<[state |-> "made", deps |-> <<>>, err |-> NoErr, reactions |-> <<>>,
     watched |-> FALSE, epoch |-> 0, stale |-> FALSE, captured |-> 0,
     scoped |-> FALSE]>>

\* provide(factory, options): the ref is made, the factory is kept and not
\* called; the ref starts with no invocation.
provide(p) == <<>>

Init ==
  /\ world \in Worlds
  /\ globalInstances = [p \in Provided |-> NoObj]
  /\ heap = [p \in Provided |-> provide(p)]
  /\ ctxs = <<>>
  /\ resolvers = <<>>
  /\ frames = <<>>
  /\ suspended = {}
  /\ microtasks = <<>>
  /\ last = NoLast
  /\ ret = [p \in Provided |-> NoRet]
  /\ observed = {}
  /\ ncalls = 0
  /\ returned = {}
  /\ nresets = 0

Roots == {c \in DOMAIN ctxs : ctxs[c].parent = 0}

(***************************************************************************)
(* The helpers of ioc.ts.                                                  *)
(***************************************************************************)
\* A getRefName without the fallback for a factory that has no name.
getRefNameNoFallback(p) == FactoryName(p)

\* getRefName: ref.factory.name || '<anonymous>'
getRefName(p) == IF FactoryName(p) = "" THEN "<anonymous>" ELSE FactoryName(p)

\* An error message without the provider's name.
CircularErrorPlain(p) == "Circular dependency detected"

CircularError(p) == "Circular dependency detected: " \o getRefName(p)

\* A lookup that lets the outermost context holding the ref decide.
RECURSIVE findRefOutermost(_, _)
findRefOutermost(refInternal, ctx) ==
  IF ctx = 0 THEN refInternal
  ELSE LET above == findRefOutermost(refInternal, ctxs[ctx].parent)
       IN IF above # refInternal THEN above
          ELSE IF ctxs[ctx].localProviders[refInternal] # NoRef
               THEN ctxs[ctx].localProviders[refInternal]
               ELSE refInternal

\* A lookup that consults the Map of every context alive, whoever made it.
findRefAnyContext(refInternal, ctx) ==
  LET found == {ctxs[c].localProviders[refInternal] : c \in DOMAIN ctxs} \ {NoRef}
  IN IF found = {} THEN refInternal ELSE CHOOSE q \in found : TRUE

\* A lookup that goes on with what it found until no Map on the way up
\* replaces it.
RECURSIVE findRefTransitive(_, _)
findRefTransitive(refInternal, ctx) ==
  LET RECURSIVE Walk(_)
      Walk(c) == IF c = 0 THEN refInternal
                 ELSE IF ctxs[c].localProviders[refInternal] # NoRef
                      THEN ctxs[c].localProviders[refInternal]
                      ELSE Walk(ctxs[c].parent)
      found == Walk(ctx)
  IN IF found = refInternal THEN found ELSE findRefTransitive(found, ctx)

\* findRefInContext: the first Map on the way up that has the ref as a key.
RECURSIVE findRefInContext(_, _)
findRefInContext(refInternal, ctx) ==
  IF ctx = 0 THEN refInternal
  ELSE IF ctxs[ctx].localProviders[refInternal] # NoRef
       THEN ctxs[ctx].localProviders[refInternal]
       ELSE findRefInContext(refInternal, ctxs[ctx].parent)

\* A test that looks only at the provider that made the request.
IncludesRequester(stack, p) == stack # <<>> /\ stack[Len(stack)] = p

\* stack.includes(refInternal)
Includes(stack, p) == \E i \in DOMAIN stack : stack[i] = p

\* Some enumeration of a finite set.
SeqOf(S) ==
  CHOOSE s \in [1..Cardinality(S) -> S] : \A i, j \in DOMAIN s : s[i] = s[j] => i = j

\* A root inject that starts from the providers a failed call left behind
\* instead of from an empty stack.
RootStackLeftOver ==
  SeqOf({p \in Provided : heap[p] # <<>> /\ heap[p][Len(heap[p])].state = "threw"})

\* A root inject called inside a factory that continues the stack of the
\* construction it is called from.
RootStackOfCaller ==
  IF frames = <<>> THEN <<>> ELSE resolvers[frames[Len(frames)].inj].stack

\* The stack ctx.inject passes: injectInternal(refInstance, ctx, []).
RootStack == <<>>

\* One stack array shared by the whole call, pushed on entry and never
\* popped: what the running factory's finished dependencies pushed is
\* still on it.
RECURSIVE BuiltUnder(_)
BuiltUnder(S) ==
  LET T == S \cup UNION {{heap[x.p][x.n].deps[i] : i \in DOMAIN heap[x.p][x.n].deps} :
                            x \in S}
  IN IF T = S THEN S ELSE BuiltUnder(T)

CurrentStackShared(r) ==
  IF frames = <<>> THEN <<>>
  ELSE LET f == frames[Len(frames)]
           done == BuiltUnder({f.deps[i] : i \in DOMAIN f.deps})
       IN resolvers[r].stack \o SeqOf({x.p : x \in done})

\* An inject that passes its stack whether deactivated or not.
CurrentStackKept(r) == resolvers[r].stack

\* The inject of makeInject: `active ? stack : []`.
CurrentStack(r) == IF resolvers[r].active THEN resolvers[r].stack ELSE <<>>

\* A stack that records the provider that was asked for in place of the
\* one that answers the request.
NextStackOfTarget(stack, p) ==
  Append(stack, IF OverridesOf(p) # NoRef THEN OverridesOf(p) ELSE p)

\* nextStack = [...stack, refInternal]
NextStack(stack, p) == Append(stack, p)

\* A resolver bound to the enclosing context instead of the one the
\* provider was resolved in.
BoundCtxOuter(targetCtx) ==
  IF ctxs[targetCtx].parent = 0 THEN targetCtx ELSE ctxs[targetCtx].parent

\* The context the resolver handed to a factory without local providers is
\* bound to: makeInject(targetCtx, nextStack).
BoundCtx(targetCtx) == targetCtx

\* A local provider registered under its own ref whatever it overrides.
OverrideKeyIgnored(p) == p

\* A local provider without an `overrides` option registered under some
\* other provider's ref.
OverrideKeyNeverOwn(p) ==
  IF OverridesOf(p) # NoRef THEN OverridesOf(p) ELSE CHOOSE q \in Provided : q # p

\* childCtx.localProviders.set(p.overrides || provider, p), for each provider
\* of the list in turn.
OverrideKey(p) == IF OverridesOf(p) # NoRef THEN OverridesOf(p) ELSE p

\* A table in which the first provider listed for a ref stays.
RECURSIVE SetAllFirstWins(_, _, _)
SetAllFirstWins(map, list, i) ==
  IF i > Len(list) THEN map
  ELSE SetAllFirstWins(IF map[OverrideKey(list[i])] = NoRef
                       THEN [map EXCEPT ![OverrideKey(list[i])] = list[i]]
                       ELSE map, list, i + 1)

\* The loop over refInternal.providers: a later set() of the same key
\* replaces the earlier one.
RECURSIVE SetAll(_, _, _)
SetAll(map, list, i) ==
  IF i > Len(list) THEN map
  ELSE SetAll([map EXCEPT ![OverrideKey(list[i])] = list[i]], list, i + 1)

\* Child contexts that all write into one table, which keeps what the
\* providers built earlier registered.
ChildContextShared(targetCtx, p) ==
  LET earlier == {q \in Provided : q # p /\ heap[q] # <<>>}
      theirs == SeqOf(UNION {{ProvidersOf(q)[k] : k \in DOMAIN ProvidersOf(q)} : q \in earlier})
  IN [createInternalContext(targetCtx)
        EXCEPT !.localProviders = SetAll(SetAll(@, ProvidersOf(p), 1), theirs, 1)]

ChildContext(targetCtx, p) ==
  [createInternalContext(targetCtx)
     EXCEPT !.localProviders = SetAll(@, ProvidersOf(p), 1)]

\* A catch block that throws an error of its own.
RethrowOther(error) == "Construction failed"

\* The catch block's `throw error`.
Rethrow(error) == error

\* A deactivate() that does nothing.
DeactivateNever(rs, r) == rs

\* deactivate(), and childInject?.deactivate(): r = 0 is a null childInject.
Deactivate(rs, r) == IF r = 0 THEN rs ELSE [rs EXCEPT ![r].active = FALSE]

\* A cache that stores results only, not the promises of async factories.
CacheSetSettledOnly(cache, p, x) ==
  IF ModeOf(p) = "global" /\ x.k # "promise" THEN [cache EXCEPT ![p] = x] ELSE cache

\* A cache that stores nothing made while a factory with local providers
\* is running.
CacheSetOutsideScopes(cache, p, x) ==
  IF ModeOf(p) = "global" /\ \A i \in DOMAIN frames : frames[i].child = 0
  THEN [cache EXCEPT ![p] = x]
  ELSE cache

\* A cache that files an overriding provider's result under the provider
\* it overrides.
CacheSetUnderTarget(cache, p, x) ==
  IF ModeOf(p) = "global"
  THEN [cache EXCEPT ![IF OverridesOf(p) # NoRef THEN OverridesOf(p) ELSE p] = x]
  ELSE cache

\* A cache that stores whatever the mode.
CacheSetAnyMode(cache, p, x) == [cache EXCEPT ![p] = x]

\* globalInstances.set(refInternal, x) under `if (refInternal.mode === 'global')`.
CacheSet(cache, p, x) == IF ModeOf(p) = "global" THEN [cache EXCEPT ![p] = x] ELSE cache

\* A clear() that spares the promises still in flight.
ClearSettledOnly(cache) ==
  [p \in DOMAIN cache |->
     IF cache[p].k = "promise" /\ heap[cache[p].p][cache[p].n].state = "pending"
     THEN cache[p] ELSE NoObj]

\* globalInstances.clear()
Clear(cache) == [p \in DOMAIN cache |-> NoObj]

\* A lookup that also finds what a standalone provider's factory made last.
CacheGetStandaloneToo(p) ==
  IF ModeOf(p) = "global" THEN globalInstances[p]
  ELSE IF heap[p] # <<>> /\ heap[p][Len(heap[p])].state = "made"
       THEN Obj(p, Len(heap[p]), "inst")
       ELSE NoObj

\* A cache that hands out the value of a fulfilled promise instead of the
\* promise.
CacheGetUnwrapped(p) ==
  LET x == globalInstances[p]
  IN IF ModeOf(p) # "global" THEN NoObj
     ELSE IF x.k = "promise" /\ heap[x.p][x.n].state = "fulfilled"
          THEN Obj(x.p, x.n, "inst")
          ELSE x

\* A lookup that reads, for an overriding provider, the entry of the
\* provider it replaces.
CacheGetOfTarget(p) ==
  IF ModeOf(p) # "global" THEN NoObj
  ELSE globalInstances[IF OverridesOf(p) # NoRef THEN OverridesOf(p) ELSE p]

\* What the early return looks for: the entry of a global provider
\* (globalInstances.get(refInternal)), nothing for a standalone one.
CacheGet(p) == IF ModeOf(p) = "global" THEN globalInstances[p] ELSE NoObj

\* An injectInternal without the early return.
CacheHitNever(p) == FALSE

\* An early return taken only by requests from outside any factory.
CacheHitOutsideOnly(p) ==
  ModeOf(p) = "global" /\ globalInstances[p] # NoObj /\ frames = <<>>

\* The guard of the early return: mode === 'global' && globalInstances.has(ref).
CacheHit(p) == CacheGet(p) # NoObj

\* A rejection handler that leaves the entry, and one that deletes the
\* entry whatever it holds.
EvictNever(cache, p, promise) == cache
EvictWhateverIsThere(cache, p, promise) ==
  IF ModeOf(p) = "global" THEN [cache EXCEPT ![p] = NoObj] ELSE cache

\* The rejection handler's eviction: delete only the promise this call stored.
Evict(cache, p, promise) ==
  IF ModeOf(p) = "global" /\ cache[p] = promise THEN [cache EXCEPT ![p] = NoObj] ELSE cache

(***************************************************************************)
(* Identity and lifetime.  A new context or resolver is an object distinct *)
(* from every one alive.  One that nothing refers to any more (no running  *)
(* or parked factory, no pending handler) is gone: the closures of         *)
(* makeInject and the child context live as long as something holds them.  *)
(***************************************************************************)
FreshId(used) == CHOOSE i \in 1..(Cardinality(used) + 1) : i \notin used

HeldBy(x) == {x.inj, x.child} \ {0}

RECURSIVE WithParents(_, _)
WithParents(cs, S) ==
  LET T == S \cup ({cs[c].parent : c \in S} \ {0})
  IN IF T = S THEN S ELSE WithParents(cs, T)

\* To be the last conjunct of a step: it reads the step's other results.
Keep(rs, cs) ==
  LET liveR ==
        UNION ( {HeldBy(frames'[i]) : i \in DOMAIN frames'}
                \cup {HeldBy(f) : f \in suspended'}
                \cup {HeldBy(microtasks'[i]) : i \in DOMAIN microtasks'}
                \cup {{heap'[q][n].captured : n \in DOMAIN heap'[q]} \ {0} : q \in Provided}
                \cup UNION {UNION {{HeldBy(heap'[q][n].reactions[j]) :
                                       j \in DOMAIN heap'[q][n].reactions} :
                                     n \in DOMAIN heap'[q]} : q \in Provided} )
      keptR == DOMAIN rs \cap liveR
      liveC == WithParents(cs, {c \in DOMAIN cs : cs[c].parent = 0}
                               \cup {frames'[i].tctx : i \in DOMAIN frames'}
                               \cup {f.tctx : f \in suspended'}
                               \cup {rs[r].ctx : r \in keptR})
  IN /\ resolvers' = [r \in keptR |-> rs[r]]
     /\ ctxs' = [c \in DOMAIN cs \cap liveC |-> cs[c]]

(***************************************************************************)
(* What an invocation of a factory has come to: "running", then for a      *)
(* synchronous factory "made" (its result object exists) or "threw", for   *)
(* an async one "pending", "fulfilled" (its result object exists too) or   *)
(* "rejected".  `deps` is what the factory's inject calls gave it, which   *)
(* is what its result is built from; `reactions` are the handlers waiting  *)
(* on the promise; `watched` says the outside caller awaits it; `epoch` is  *)
(* the number of resets made before the invocation; `stale` says that the  *)
(* promise's handlers ran when the cache held another object for the ref;  *)
(* `captured` is the resolver the result keeps, 0 if none; `scoped` says   *)
(* that the request was made in a context of local providers.              *)
(***************************************************************************)
NewInvocation ==
  [state |-> "running", deps |-> <<>>, err |-> NoErr, reactions |-> <<>>,
   watched |-> FALSE, epoch |-> nresets, stale |-> FALSE, captured |-> 0,
   scoped |-> FALSE]

IsPromise(x) == x.k = "promise"
Of(hp, x) == hp[x.p][x.n]

\* The pair of handlers injectInternal attaches with promise.then(...).
EngineReaction(promise, f) ==
  [kind |-> "engine", promise |-> promise, inj |-> f.inj, child |-> f.child]

\* The continuation of an async factory that awaits the promise.
FactoryReaction(promise, f) ==
  [kind |-> "resume", promise |-> promise, inj |-> f.inj, child |-> f.child,
   frame |-> f]

\* The continuation of the caller that was handed the promise.
CallerReaction(promise) ==
  [kind |-> "observe", promise |-> promise, inj |-> 0, child |-> 0]

(***************************************************************************)
(* How a finished inject call gets back to whoever made it: the factory    *)
(* below it on the call stack, or the code outside (`last`).  A caller     *)
(* outside that is handed a promise waits for it.  A factory that made the *)
(* call inside a runInInjectionContext of its own leaves that with it.     *)
(***************************************************************************)
Complete(fs, l, hp, mt, ok, v, e) ==
  LET outside == fs = <<>>
      n == Len(fs)
      watch == outside /\ ok /\ IsPromise(v) /\ ~Of(hp, v).watched
  IN /\ frames' = IF outside THEN fs
                  ELSE IF ok THEN [fs EXCEPT ![n].deps = Append(@, v), ![n].pc = @ + 1,
                                             ![n].root = 0]
                  ELSE [fs EXCEPT ![n].exc = e, ![n].root = 0]
     /\ last' = IF ~outside THEN l
                ELSE IF ok THEN [l EXCEPT !.status = "returned", !.val = v]
                ELSE [l EXCEPT !.status = "threw", !.err = e]
     /\ ret' = IF outside /\ ok
               THEN [ret EXCEPT ![l.eff] = [val |-> v, from |-> l.cnt0]]
               ELSE ret
     /\ heap' = IF ~watch THEN hp
                ELSE [hp EXCEPT ![v.p][v.n].watched = TRUE,
                                ![v.p][v.n].reactions =
                                   IF Of(hp, v).state = "pending"
                                   THEN Append(@, CallerReaction(v))
                                   ELSE @]
     /\ microtasks' = IF watch /\ Of(hp, v).state # "pending"
                      THEN Append(mt, CallerReaction(v))
                      ELSE mt

(***************************************************************************)
(* injectInternal(refInstance, targetCtx, stack), up to the call of the    *)
(* factory.  `l` is the record of the outside call being served.           *)
(***************************************************************************)
NewFrame(refInternal, targetCtx, inj, child) ==
  [ref |-> refInternal, tctx |-> targetCtx, inj |-> inj, child |-> child, pc |-> 1,
   deps |-> <<>>, inv |-> count(refInternal) + 1, exc |-> NoErr, awaited |-> FALSE,
   root |-> 0]

\* The cache consulted before the stack: a request for a provider that is
\* on the stack and has an entry is no cycle.
CycleCheckAfterCache(stack, refInternal) ==
  Includes(stack, refInternal) /\ ~CacheHit(refInternal)

\* The first test injectInternal makes on the effective provider, before
\* it looks at the cache: if (stack.includes(refInternal)) throw.
CycleCheck(stack, refInternal) == Includes(stack, refInternal)

injectInternal(refInstance, targetCtx, stack, l) ==
  LET refInternal == findRefInContext(refInstance, targetCtx)
      nextStack == NextStack(stack, refInternal)
      hasProviders == Len(ProvidersOf(refInternal)) > 0
      inj == FreshId(DOMAIN resolvers)
      child == IF hasProviders THEN FreshId(DOMAIN resolvers \cup {inj}) ELSE 0
      childCtx == FreshId(DOMAIN ctxs)
      own == [ctx |-> BoundCtx(targetCtx), stack |-> nextStack, active |-> TRUE]
      forChild == [ctx |-> childCtx, stack |-> nextStack, active |-> TRUE]
  IN IF CycleCheck(stack, refInternal)
     THEN /\ Complete(frames, l, heap, microtasks, FALSE, NoObj, CircularError(refInternal))
          /\ UNCHANGED globalInstances
          /\ Keep(resolvers, ctxs)
     ELSE IF CacheHit(refInternal)
     THEN /\ Complete(frames, l, heap, microtasks, TRUE, CacheGet(refInternal), NoErr)
          /\ UNCHANGED globalInstances
          /\ Keep(resolvers, ctxs)
     ELSE /\ heap' = [heap EXCEPT ![refInternal] =
                         Append(@, [NewInvocation EXCEPT
                                      !.scoped = ctxs[targetCtx].parent # 0])]
          /\ frames' = Append(frames, NewFrame(refInternal, targetCtx, inj, child))
          /\ last' = l
          /\ UNCHANGED <<globalInstances, microtasks, ret>>
          /\ Keep(IF hasProviders
                  THEN resolvers @@ (inj :> own) @@ (child :> forChild)
                  ELSE resolvers @@ (inj :> own),
                  IF hasProviders
                  THEN ctxs @@ (childCtx :> ChildContext(targetCtx, refInternal))
                  ELSE ctxs)

(***************************************************************************)
(* The operations.                                                         *)
(***************************************************************************)
Idle == frames = <<>>

\* How many inject calls the code outside makes.  The program of world
\* "contend" makes one more: a first call, the retry of one of those who
\* awaited its promise, and the retry of another.  The programs whose
\* factories go on asking after a suspension make two, the overlapping pair
\* they are about.
CallsIn(w) ==
  CASE w = "contend" -> MaxCalls + 1
    [] w \in {"crosswait", "delegate", "selfawait"} -> 2
    [] OTHER -> MaxCalls

\* runInInjectionContext(fn): a new root context; fn's inject calls are
\* CallInject steps on it.  A root context does nothing until an inject
\* goes through it, so one is made only when those made before have been
\* used (`last.used`).
RunInInjectionContext ==
  /\ Idle
  /\ Cardinality(Roots) < MaxRoots
  /\ Roots \subseteq last.used
  /\ ctxs' = ctxs @@ (FreshId(DOMAIN ctxs) :> createInternalContext(NoParent))
  /\ UNCHANGED <<world, returned, globalInstances, heap, resolvers, frames, suspended,
                 microtasks, last, ret, observed, ncalls, nresets>>

\* The programs whose callback hands the inject it was given to code that
\* runs after the runInInjectionContext call:
\* `let inject; runInInjectionContext(r => { inject = r.inject })`.
KeepRootInject == {"basic", "async", "retry", "cycle", "override", "captured"}

\* The function given to runInInjectionContext returns, and with it the
\* call; the inject it was given may have been kept.  Nothing in the
\* library runs at that moment (`return fn(ctx)`), so
\* the step is taken only where an inject can still follow it.
RunInInjectionContextReturns(c) ==
  /\ Idle
  /\ world \in KeepRootInject
  /\ ncalls < CallsIn(world)
  /\ c \in Roots \ returned
  /\ c = last.ctx
  /\ ~last.captured
  /\ returned' = returned \cup {c}
  /\ UNCHANGED <<world, globalInstances, heap, ctxs, resolvers, frames, suspended,
                 microtasks, last, ret, observed, ncalls, nresets>>

\* A root inject that refuses to work once the runInInjectionContext call
\* that made its context has returned.
ScopeMisuseAfterReturn(c) ==
  IF c \in returned THEN "No active injection context" ELSE NoErr

\* What ctx.inject tests before it resolves: nothing, the closure is
\* `(refInstance) => injectInternal(refInstance, ctx, [])`.
ScopeMisuse(c) == NoErr

\* ctx.inject(ref), called by the function given to runInInjectionContext
\* (or by what it left behind): injectInternal(refInstance, ctx, []).
CallInject(c, p) ==
  /\ Idle
  /\ ncalls < CallsIn(world)
  /\ ncalls' = ncalls + 1
  /\ UNCHANGED <<world, returned, suspended, observed, nresets>>
  /\ LET l ==
       [ctx |-> c, ref |-> p, eff |-> findRefInContext(p, c), status |-> "running",
        val |-> NoObj, err |-> NoErr, cnt0 |-> count(findRefInContext(p, c)),
        prev |-> ret[findRefInContext(p, c)].val,
        from0 |-> ret[findRefInContext(p, c)].from,
        prevRejected |-> LET x == ret[findRefInContext(p, c)].val
                         IN IsPromise(x) /\ Of(heap, x).state = "rejected",
        prevSeen |-> ret[findRefInContext(p, c)].val \in observed,
        cache0 |-> Cardinality({q \in Provided : globalInstances[q] # NoObj}),
        hit0 |-> globalInstances[findRefInContext(p, c)],
        prevStatus |-> last.status, sameCtx |-> (c = last.ctx), captured |-> FALSE,
        used |-> last.used \cup {c}, seen0 |-> LatestSeen(findRefInContext(p, c)),
        after |-> c \in returned]
     IN IF ScopeMisuse(c) # NoErr
        THEN /\ Complete(frames, l, heap, microtasks, FALSE, NoObj, ScopeMisuse(c))
             /\ UNCHANGED globalInstances
             /\ Keep(resolvers, ctxs)
        ELSE injectInternal(p, c, RootStack, l)

\* A method of an object a factory returned calls the inject that factory
\* was passed and kept.
CallCaptured(x, q) ==
  /\ Idle
  /\ ncalls < CallsIn(world)
  /\ x.k = "inst"
  /\ \/ Of(heap, x).state = "made"
     \/ Of(heap, x).state = "fulfilled" /\ Obj(x.p, x.n, "promise") \in observed
  /\ Of(heap, x).captured # 0
  /\ q \in CapturedAsks(x.p)
  /\ ncalls' = ncalls + 1
  /\ UNCHANGED <<world, returned, suspended, observed, nresets>>
  /\ LET r == Of(heap, x).captured
         c == resolvers[r].ctx
         eff == findRefInContext(q, c)
     IN injectInternal(q, c, CurrentStack(r),
          [ctx |-> c, ref |-> q, eff |-> eff, status |-> "running",
           val |-> NoObj, err |-> NoErr, cnt0 |-> count(eff),
           prev |-> ret[eff].val, from0 |-> ret[eff].from,
           prevRejected |-> IsPromise(ret[eff].val)
                              /\ Of(heap, ret[eff].val).state = "rejected",
           prevSeen |-> ret[eff].val \in observed,
           cache0 |-> Cardinality({t \in Provided : globalInstances[t] # NoObj}),
           hit0 |-> globalInstances[eff],
           prevStatus |-> last.status, sameCtx |-> (c = last.ctx), captured |-> TRUE,
           used |-> last.used, seen0 |-> LatestSeen(eff), after |-> FALSE])

\* resetGlobalInstances(): globalInstances.clear().  Clearing an empty Map
\* changes nothing, so a reset is taken only when there is an entry.
ResetGlobalInstances ==
  /\ Idle
  /\ nresets < MaxResets
  /\ \E p \in Provided : globalInstances[p] # NoObj
  /\ nresets' = nresets + 1
  /\ globalInstances' = Clear(globalInstances)
  /\ ret' = [p \in Provided |-> NoRet]
  /\ UNCHANGED <<world, returned, heap, ctxs, resolvers, frames, suspended, microtasks,
                 last, observed, ncalls>>

(***************************************************************************)
(* The steps of the factory on top of the call stack.                      *)
(***************************************************************************)
Top == frames[Len(frames)]
Below == SubSeq(frames, 1, Len(frames) - 1)
TopScript == Script(Top.ref, Top.inv)
AtOp(kind) ==
  /\ frames # <<>>
  /\ Top.exc = NoErr
  /\ Top.pc <= Len(TopScript)
  /\ TopScript[Top.pc].op = kind

\* The objects of the invocation a frame is.
ResultOf(f) == Obj(f.ref, f.inv, "inst")
PromiseOf(f) == Obj(f.ref, f.inv, "promise")

\* The resolver the factory was given: childInject.inject when the provider
\* has local providers, inject otherwise.
Given(f) == IF f.child # 0 THEN f.child ELSE f.inj

\* The factory calls the inject it was given.
FactoryInject ==
  /\ AtOp("inject")
  /\ UNCHANGED <<world, returned, suspended, observed, ncalls, nresets>>
  /\ injectInternal(TopScript[Top.pc].ref, resolvers[Given(Top)].ctx,
                    CurrentStack(Given(Top)), last)

\* The factory calls runInInjectionContext: a new root context, the one
\* its callback is given.
FactoryRunIn ==
  /\ AtOp("runin")
  /\ Top.root = 0
  /\ ctxs' = ctxs @@ (FreshId(DOMAIN ctxs) :> createInternalContext(NoParent))
  /\ frames' = [frames EXCEPT ![Len(frames)].root = FreshId(DOMAIN ctxs)]
  /\ last' = [last EXCEPT !.used = @ \cup {FreshId(DOMAIN ctxs)}]
  /\ UNCHANGED <<world, returned, globalInstances, heap, resolvers, suspended, microtasks,
                 ret, observed, ncalls, nresets>>

\* The callback calls the inject of its context.
FactoryRunInInject ==
  /\ AtOp("runin")
  /\ Top.root # 0
  /\ UNCHANGED <<world, returned, suspended, observed, ncalls, nresets>>
  /\ injectInternal(TopScript[Top.pc].ref, Top.root, RootStack, last)

\* An async factory's result is a promise.  When the factory returns or
\* throws before its first await, injectInternal gets a settled promise:
\* it stores it, attaches its handlers (which are queued at once) and
\* returns it.  After an await there is no caller left: the promise
\* settles and its reactions are queued.
AsyncOutcome(ok, e) ==
  LET f == Top
      settled == [heap EXCEPT ![f.ref][f.inv].state = IF ok THEN "fulfilled" ELSE "rejected",
                              ![f.ref][f.inv].deps = f.deps,
                              ![f.ref][f.inv].err = e,
                              ![f.ref][f.inv].reactions = <<>>,
                              ![f.ref][f.inv].captured =
                                 IF ok /\ CapturedAsks(f.ref) # {} THEN Given(f) ELSE 0]
  IN IF ~f.awaited
     THEN /\ globalInstances' = CacheSet(globalInstances, f.ref, PromiseOf(f))
          /\ Complete(Below, last, settled,
                      Append(microtasks, EngineReaction(PromiseOf(f), f)),
                      TRUE, PromiseOf(f), NoErr)
          /\ Keep(resolvers, ctxs)
     ELSE /\ heap' = settled
          /\ microtasks' = microtasks \o heap[f.ref][f.inv].reactions
          /\ frames' = Below
          /\ UNCHANGED <<globalInstances, last, ret>>
          /\ Keep(resolvers, ctxs)

\* The factory returns.  A synchronous one: deactivate, store, return.
FactoryReturn ==
  /\ frames # <<>>
  /\ Top.exc = NoErr
  /\ Top.pc > Len(TopScript)
  /\ UNCHANGED <<world, returned, suspended, observed, ncalls, nresets>>
  /\ IF IsAsync(Top.ref)
     THEN AsyncOutcome(TRUE, NoErr)
     ELSE /\ globalInstances' = CacheSet(globalInstances, Top.ref, ResultOf(Top))
          /\ Complete(Below, last,
                      [heap EXCEPT ![Top.ref][Top.inv].state = "made",
                                   ![Top.ref][Top.inv].deps = Top.deps,
                                   ![Top.ref][Top.inv].captured =
                                      IF CapturedAsks(Top.ref) # {} THEN Given(Top) ELSE 0],
                      microtasks, TRUE, ResultOf(Top), NoErr)
          /\ Keep(Deactivate(Deactivate(resolvers, Top.child), Top.inj), ctxs)

\* The factory throws, or an inject call it made threw and it does not
\* catch.  A synchronous one: the catch block deactivates and rethrows.
FactoryThrow ==
  /\ frames # <<>>
  /\ Top.exc # NoErr \/ AtOp("throw")
  /\ UNCHANGED <<world, returned, suspended, observed, ncalls, nresets>>
  /\ LET e == IF Top.exc # NoErr THEN Top.exc ELSE FactoryError
     IN IF IsAsync(Top.ref)
        THEN AsyncOutcome(FALSE, e)
        ELSE /\ Complete(Below, last,
                         [heap EXCEPT ![Top.ref][Top.inv].state = "threw",
                                      ![Top.ref][Top.inv].err = Rethrow(e)],
                         microtasks, FALSE, NoObj, Rethrow(e))
             /\ UNCHANGED globalInstances
             /\ Keep(Deactivate(Deactivate(resolvers, Top.child), Top.inj), ctxs)

\* An async factory reaches an await on something outside the engine.  At
\* the first one its promise comes into being, pending: injectInternal
\* stores it, attaches its handlers and returns it.
FactoryAwait ==
  /\ AtOp("tick")
  /\ IsAsync(Top.ref)
  /\ UNCHANGED <<world, returned, observed, ncalls, nresets>>
  /\ suspended' = suspended \cup {[Top EXCEPT !.pc = @ + 1, !.awaited = TRUE]}
  /\ LET f == Top
     IN IF ~f.awaited
        THEN /\ globalInstances' = CacheSet(globalInstances, f.ref, PromiseOf(f))
             /\ Complete(Below, last,
                         [heap EXCEPT ![f.ref][f.inv].state = "pending",
                                      ![f.ref][f.inv].reactions =
                                         <<EngineReaction(PromiseOf(f), f)>>],
                         microtasks, TRUE, PromiseOf(f), NoErr)
             /\ Keep(resolvers, ctxs)
        ELSE /\ frames' = Below
             /\ UNCHANGED <<globalInstances, heap, microtasks, last, ret>>
             /\ Keep(resolvers, ctxs)

\* An async factory awaits the promise its latest request returned.  Its
\* continuation is a reaction of that promise: queued at once when the
\* promise has settled.  At the factory's first await its own promise comes
\* into being, pending: injectInternal stores it, attaches its handlers and
\* returns it.
FactoryAwaitDep ==
  /\ AtOp("awaitdep")
  /\ IsAsync(Top.ref)
  /\ Top.deps # <<>>
  /\ IsPromise(Top.deps[Len(Top.deps)])
  /\ UNCHANGED <<world, returned, suspended, observed, ncalls, nresets>>
  /\ LET f == Top
         x == f.deps[Len(f.deps)]
         parked == [f EXCEPT !.pc = @ + 1, !.awaited = TRUE]
         waiting == Of(heap, x).state = "pending"
         hp == IF waiting
               THEN [heap EXCEPT ![x.p][x.n].reactions = Append(@, FactoryReaction(x, parked))]
               ELSE heap
         mt == IF waiting THEN microtasks ELSE Append(microtasks, FactoryReaction(x, parked))
     IN IF ~f.awaited
        THEN /\ globalInstances' = CacheSet(globalInstances, f.ref, PromiseOf(f))
             /\ Complete(Below, last,
                         [hp EXCEPT ![f.ref][f.inv].state = "pending",
                                    ![f.ref][f.inv].reactions =
                                       <<EngineReaction(PromiseOf(f), f)>>],
                         mt, TRUE, PromiseOf(f), NoErr)
             /\ Keep(resolvers, ctxs)
        ELSE /\ frames' = Below
             /\ heap' = hp
             /\ microtasks' = mt
             /\ UNCHANGED <<globalInstances, last, ret>>
             /\ Keep(resolvers, ctxs)

\* The promise an async factory awaited has settled: the factory goes on,
\* with the exception if the promise rejected.
RunFactoryContinuation ==
  /\ Idle
  /\ microtasks # <<>>
  /\ Head(microtasks).kind = "resume"
  /\ microtasks' = Tail(microtasks)
  /\ LET m == Head(microtasks)
     IN frames' = <<IF Of(heap, m.promise).state = "rejected"
                    THEN [m.frame EXCEPT !.exc = Of(heap, m.promise).err]
                    ELSE m.frame>>
  /\ UNCHANGED <<world, returned, globalInstances, heap, ctxs, resolvers, suspended, last, ret,
                 observed, ncalls, nresets>>

\* What the factory awaited happens: a task of its own, run when nothing
\* else does.
Resume(f) ==
  /\ Idle
  /\ microtasks = <<>>
  /\ f \in suspended
  /\ frames' = <<f>>
  /\ suspended' = suspended \ {f}
  /\ UNCHANGED <<world, returned, globalInstances, heap, ctxs, resolvers, microtasks,
                 last, ret, observed, ncalls, nresets>>

\* The handlers injectInternal attached: on fulfilment deactivate, on
\* rejection evict (if the entry is still this promise) and deactivate.
RunEngineHandler ==
  /\ Idle
  /\ microtasks # <<>>
  /\ Head(microtasks).kind = "engine"
  /\ microtasks' = Tail(microtasks)
  /\ UNCHANGED <<world, returned, frames, suspended, last, ret, observed, ncalls, nresets>>
  /\ LET m == Head(microtasks)
     IN /\ heap' = [heap EXCEPT ![m.promise.p][m.promise.n].stale =
                                  globalInstances[m.promise.p] \notin {NoObj, m.promise}]
        /\ globalInstances' = IF Of(heap, m.promise).state = "rejected"
                              THEN Evict(globalInstances, m.promise.p, m.promise)
                              ELSE globalInstances
        /\ Keep(Deactivate(Deactivate(resolvers, m.child), m.inj), ctxs)

\* A caller's continuation that does not wait its turn in the queue: it
\* runs ahead of the reactions attached before it.
RunCallerContinuationAhead ==
  /\ Idle
  /\ \E i \in DOMAIN microtasks :
       /\ microtasks[i].kind = "observe"
       /\ observed' = observed \cup {microtasks[i].promise}
       /\ microtasks' = SubSeq(microtasks, 1, i - 1)
                          \o SubSeq(microtasks, i + 1, Len(microtasks))
  /\ UNCHANGED <<world, returned, globalInstances, heap, ctxs, resolvers, frames, suspended,
                 last, ret, ncalls, nresets>>

\* The caller that awaited the promise it was handed learns how it settled.
RunCallerContinuation ==
  /\ Idle
  /\ microtasks # <<>>
  /\ Head(microtasks).kind = "observe"
  /\ observed' = observed \cup {Head(microtasks).promise}
  /\ microtasks' = Tail(microtasks)
  /\ UNCHANGED <<world, returned, globalInstances, heap, ctxs, resolvers, frames, suspended,
                 last, ret, ncalls, nresets>>

Next ==
  \/ RunInInjectionContext
  \/ \E c \in Roots : RunInInjectionContextReturns(c)
  \/ \E c \in Roots : \E p \in Provided : CallInject(c, p)
  \/ \E q \in Provided : \E n \in DOMAIN heap[q] : \E t \in CapturedAsks(q) :
       CallCaptured(Obj(q, n, "inst"), t)
  \/ ResetGlobalInstances
  \/ FactoryInject
  \/ FactoryReturn
  \/ FactoryThrow
  \/ FactoryAwait
  \/ \E f \in suspended : Resume(f)
  \/ FactoryAwaitDep
  \/ FactoryRunIn
  \/ FactoryRunInInject
  \/ RunFactoryContinuation
  \/ RunEngineHandler
  \/ RunCallerContinuation

Spec == Init /\ [][Next]_vars

(***************************************************************************)
(* What the properties below speak of.                                     *)
(***************************************************************************)
\* The outside call recorded in `last` has come back with a value.
Returned == last.status = "returned"

\* The providers a factory asks for, and all those it comes to need.
DepsOf(p) ==
  {Script(p, 1)[i].ref : i \in {j \in DOMAIN Script(p, 1) : Script(p, 1)[j].op = "inject"}}

RECURSIVE NeedsToo(_)
NeedsToo(S) ==
  LET T == S \cup UNION {DepsOf(q) : q \in S}
  IN IF T = S THEN S ELSE NeedsToo(T)

Needs(p) == NeedsToo(DepsOf(p))
OnCycle(p) == p \in Needs(p)

\* One of p's local providers replaces a provider p's factory asks for, asks
\* for that provider in turn and has no local provider of its own for it:
\* inside p's scope it is handed its own request.
RedirectCycle(p) ==
  \E k \in DOMAIN ProvidersOf(p) :
     LET o == ProvidersOf(p)[k]
     IN /\ OverridesOf(o) \in DepsOf(p) \cap DepsOf(o)
        /\ \A j \in DOMAIN ProvidersOf(o) : OverrideKey(ProvidersOf(o)[j]) # OverridesOf(o)

ReachesCycle(p) == \E q \in Needs(p) \cup {p} : OnCycle(q) \/ RedirectCycle(q)

\* Invocation inv of the factory of p asks, through the root resolver of a
\* context it creates, for p itself.
AsksForItself(p, inv) == \E i \in DOMAIN Script(p, inv) : Script(p, inv)[i] = RunIn(p)

\* The name an error message is to show for a provider.
Shown(p) == IF p \in NamedFactories THEN p ELSE "<anonymous>"
CircularErrors == {"Circular dependency detected: " \o Shown(p) : p \in Refs}

\* This invocation of p's factory throws by itself.
Throws(p, inv) == \E i \in DOMAIN Script(p, inv) : Script(p, inv)[i].op = "throw"

\* The stack held by the resolver made for the i-th factory running.
StackOf(i) == resolvers[frames[i].inj].stack

\* The i-th factory running can come upon a cycle: by what its provider
\* asks for, or, started inside a scope of local providers, by being handed
\* its own request.
MayMeetCycle(i) ==
  \/ ReachesCycle(frames[i].ref)
  \/ /\ heap[frames[i].ref][frames[i].inv].scoped
     /\ \E q \in Provided : RedirectCycle(q)

\* The first dependency an object was built from.
Dep1(x) == Of(heap, x).deps[1]

C2_SingleFlight ==
  /\ \A p \in Provided : \A n \in DOMAIN heap[p] :
       (ModeOf(p) = "global" /\ heap[p][n].state = "pending" /\ heap[p][n].epoch = nresets)
         => /\ globalInstances[p] = Obj(p, n, "promise")
            /\ count(p) = n
  /\ (Returned /\ ModeOf(last.eff) = "global" /\ IsPromise(last.prev)
        /\ Of(heap, last.prev).state = "pending")
       => /\ last.val = last.prev
          /\ ret[last.eff].val = last.val => count(last.eff) = last.cnt0

\* A second caller, in another root context, was handed the promise that is
\* still in flight.
C2_Witness ==
  /\ Returned
  /\ ModeOf(last.eff) = "global"
  /\ IsPromise(last.prev)
  /\ Of(heap, last.prev).state = "pending"
  /\ last.val = last.prev
  /\ ~last.sameCtx
  /\ count(last.eff) = 1

C4_FailureDoesNotStick ==
  /\ \A x \in observed :
       Of(heap, x).state = "rejected" => globalInstances[x.p] # x
  /\ (Returned /\ ModeOf(last.eff) = "global" /\ last.prevRejected /\ last.prevSeen
        /\ last.prev.n = last.cnt0)
       => /\ globalInstances[last.eff] = last.val => count(last.eff) = last.cnt0 + 1
          /\ last.val = Obj(last.eff, last.cnt0 + 1, "promise")
          /\ last.val # last.prev
          /\ (~Throws(last.eff, last.cnt0 + 1) /\ ~ReachesCycle(last.eff))
               => Of(heap, last.val).state # "rejected"

\* The first promise rejected and was observed; the second call ran the
\* factory a second time and its promise has fulfilled.
C4_Witness ==
  /\ Returned
  /\ ModeOf(last.eff) = "global"
  /\ last.prevRejected
  /\ last.prevSeen
  /\ count(last.eff) = 2
  /\ IsPromise(last.val)
  /\ Of(heap, last.val).state = "fulfilled"

(***************************************************************************)
(* C5.                                                                     *)
(***************************************************************************)
\* A step that runs the handlers injectInternal attached to a promise.
HandlerStep ==
  /\ Idle
  /\ microtasks # <<>>
  /\ Head(microtasks).kind = "engine"
  /\ microtasks' = Tail(microtasks)

\* C5: an entry of the cache changes only by a reset, by the rejection
\* handler of the very promise that is the entry, which deletes it, or by
\* the return of a factory that had asked for its own provider through a
\* root resolver, which stores its object over the one made meanwhile.  So
\* the late rejection of a promise stored before a reset does not delete
\* the promise stored since, and a late fulfilment writes nothing.
C5_StaleSettlementKeepsNewerEntry ==
  [][\A p \in Provided :
       \/ globalInstances'[p] = globalInstances[p]
       \/ globalInstances[p] = NoObj
       \/ nresets' # nresets
       \/ /\ HandlerStep
          /\ globalInstances[p] = Head(microtasks).promise
          /\ Of(heap, Head(microtasks).promise).state = "rejected"
          /\ globalInstances'[p] = NoObj
       \/ /\ frames # <<>>
          /\ Top.ref = p
          /\ AsksForItself(p, Top.inv)
          /\ globalInstances'[p] = ResultOf(Top)]_vars

\* The promise stored before the reset rejected after the reset, its
\* handlers ran while the promise stored since was the entry, and that
\* one still is.
C5_Witness ==
  \E p \in Provided :
    /\ count(p) = 2
    /\ heap[p][1].state = "rejected"
    /\ heap[p][1].stale
    /\ heap[p][1].epoch < heap[p][2].epoch
    /\ globalInstances[p] = Obj(p, 2, "promise")

C7_NoCycleStateSurvives ==
  /\ (last.status = "threw" /\ last.err \in CircularErrors) => ReachesCycle(last.eff)
  /\ (last.status = "threw" /\ ~ReachesCycle(last.eff))
       => /\ last.err = FactoryError
          /\ \E p \in (Needs(last.eff) \cup {last.eff}) \cap Provided :
               heap[p] # <<>> /\ Throws(p, count(p))
  /\ \A i \in DOMAIN frames :
       frames[i].exc \in CircularErrors => MayMeetCycle(i)

\* After inject(ServiceA) failed with the cycle error, inject(NonCircular)
\* in the same root context returned an instance.
C7_Witness ==
  /\ last.prevStatus = "threw"
  /\ last.sameCtx
  /\ last.ref = "NonCircular"
  /\ Returned
  /\ last.val = Obj("NonCircular", 1, "inst")
  /\ heap["ServiceA"] # <<>>

(***************************************************************************)
(* C8.                                                                     *)
(***************************************************************************)
\* C8: the stack a factory's resolver holds is its caller's stack (empty
\* for a request through a root context) plus the provider itself, nothing
\* of what a sibling resolved (a factory that goes on after an await has no
\* caller any more and keeps the stack it was started with); so a provider
\* reached along two branches of a diamond raises no cycle error.
C8_SiblingsDoNotShareStack ==
  /\ \A i \in DOMAIN frames :
       /\ (i > 1 \/ ~frames[i].awaited)
            => StackOf(i) = IF i = 1 \/ frames[i - 1].root # 0 THEN <<frames[i].ref>>
                            ELSE Append(StackOf(i - 1), frames[i].ref)
       /\ frames[i].child # 0 => resolvers[frames[i].child].stack = StackOf(i)
  /\ world \in {"diamond", "sdiamond"}
       => /\ last.status # "threw"
          /\ \A i \in DOMAIN frames : frames[i].exc = NoErr

\* The shared standalone base is being built for the second branch, after
\* the first branch had built its own.
C8_Witness ==
  /\ Len(frames) = 3
  /\ frames[3].ref = "SBase"
  /\ StackOf(3) = <<"STop", "SRight", "SBase">>
  /\ Len(frames[1].deps) = 1
  /\ count("SBase") = 2

(***************************************************************************)
(* C9.                                                                     *)
(***************************************************************************)
\* C9: with nothing cached, injecting w, whose providers hold ov overriding
\* base, builds w from an svc that was built from ov's instance; a call
\* made from a root context always constructs the provider it names, so
\* inject(base) there gives base's own instance.
C9_OverrideShadows ==
  /\ (world = "override" /\ Returned /\ last.ref = "localServiceRef" /\ last.cache0 = 0)
       => /\ last.val.p = "localServiceRef"
          /\ Dep1(last.val).p = "serviceRef"
          /\ Dep1(Dep1(last.val)).p = "localConfig"
  /\ (Returned /\ ~last.captured) => last.val.p = last.ref
  /\ \A p \in Provided : globalInstances[p] # NoObj => globalInstances[p].p = p

\* After w was built from the override, inject(base) from the root context
\* returned base's own instance.
C9_Witness ==
  /\ world = "override"
  /\ Returned
  /\ last.ref = "configRef"
  /\ last.val = Obj("configRef", 1, "inst")
  /\ nresets = 0
  /\ ret["localServiceRef"].val # NoObj
  /\ Dep1(Dep1(ret["localServiceRef"].val)).p = "localConfig"

(***************************************************************************)
(* C10.                                                                    *)
(***************************************************************************)
\* C10: every factory running under w (appRef) is given a resolver that
\* resolves cfg to w's local override, however deep, so every appRef built
\* rests, through apiRef and httpRef, on the override's instance.
C10_OverridesReachTransitiveDeps ==
  /\ (frames # <<>> /\ frames[1].ref = "appRef")
       => \A i \in DOMAIN frames :
            /\ findRefInContext("cfg", resolvers[Given(frames[i])].ctx) = "testCfg"
            /\ frames[i].ref # "cfg"
  /\ world = "deep"
       => \A n \in DOMAIN heap["appRef"] :
            heap["appRef"][n].state = "made"
              => LET api == heap["appRef"][n].deps[1]
                 IN /\ api.p = "apiRef"
                    /\ Dep1(api).p = "httpRef"
                    /\ Dep1(Dep1(api)).p = "testCfg"

\* The override's factory runs three levels below appRef.
C10_Witness ==
  /\ Len(frames) = 4
  /\ frames[1].ref = "appRef"
  /\ frames[3].ref = "httpRef"
  /\ frames[4].ref = "testCfg"

(***************************************************************************)
(* C11.                                                                    *)
(***************************************************************************)
\* The factories running above the latest one that was requested in a
\* root context, that one included: the chain of contexts a request of
\* the i-th factory is looked up in.
ChainOf(i) ==
  LET B == {j \in 1..i : frames[j].tctx \in Roots}
  IN IF B = {} THEN {} ELSE (CHOOSE b \in B : \A j \in B : j <= b)..i

\* The provider frame j registers in place of t, NoRef if none.
LocalFor(j, t) ==
  LET ps == ProvidersOf(frames[j].ref)
      K == {k \in DOMAIN ps : OverridesOf(ps[k]) = t
                                \/ (OverridesOf(ps[k]) = NoRef /\ ps[k] = t)}
  IN IF K = {} THEN NoRef ELSE ps[CHOOSE k \in K : \A h \in K : h <= k]

\* C11: a request for t made by a running factory resolves to the override
\* of the nearest enclosing scope that has one for t, an ancestor's
\* override being used only where no nearer scope overrides t; so level2Ref,
\* built with nothing cached, rests on a level1Ref built from level1's
\* override and takes level2's override for its own request.
C11_NearestOverrideWins ==
  /\ \A i \in DOMAIN frames : \A t \in Provided :
       ChainOf(i) # {}
         => LET J == {j \in ChainOf(i) : LocalFor(j, t) # NoRef}
                r == resolvers[Given(frames[i])]
            IN findRefInContext(t, r.ctx) =
                 IF J = {} THEN t
                 ELSE LocalFor(CHOOSE j \in J : \A h \in J : h <= j, t)
  /\ (world = "nested" /\ Returned /\ last.ref = "level2Ref" /\ last.cache0 = 0)
       => /\ Dep1(last.val).p = "level1Ref"
          /\ Dep1(Dep1(last.val)).p = "level1Value"
          /\ Of(heap, last.val).deps[2].p = "level2Value"

\* Inside level2Ref's scope, level1Ref's factory is asking for valueRef
\* and its resolver gives level1's override.
C11_Witness ==
  /\ world = "nested"
  /\ Len(frames) = 3
  /\ frames[1].ref = "level2Ref"
  /\ frames[2].ref = "level1Ref"
  /\ frames[3].ref = "level1Value"

OwnTable(p) ==
  [t \in Provided |->
     LET ps == ProvidersOf(p)
         K == {k \in DOMAIN ps : OverridesOf(ps[k]) = t
                                   \/ (OverridesOf(ps[k]) = NoRef /\ ps[k] = t)}
     IN IF K = {} THEN NoRef ELSE ps[CHOOSE k \in K : \A h \in K : h <= k]]

\* C13: the overrides a provider declares live in a context of its own:
\* the table of a root context stays empty, a running factory without
\* local providers looks up in the context it was requested in, and the
\* child context of one with local providers holds its own overrides and
\* nothing else; so a tenant1AppRef rests on tenant1Ref and a
\* tenant2AppRef on tenant2Ref, whichever was built first.
C13_OverridesStayInScope ==
  /\ \A c \in Roots : \A t \in Provided : ctxs[c].localProviders[t] = NoRef
  /\ \A i \in DOMAIN frames :
       /\ resolvers[frames[i].inj].ctx = frames[i].tctx
       /\ frames[i].child # 0
            => LET c == resolvers[frames[i].child].ctx
               IN /\ ctxs[c].parent = frames[i].tctx
                  /\ ctxs[c].localProviders = OwnTable(frames[i].ref)
  /\ world = "tenant"
       => /\ \A n \in DOMAIN heap["tenant1AppRef"] :
               heap["tenant1AppRef"][n].state = "made"
                 => Dep1(heap["tenant1AppRef"][n].deps[1]).p = "tenant1Ref"
          /\ \A n \in DOMAIN heap["tenant2AppRef"] :
               heap["tenant2AppRef"][n].state = "made"
                 => Dep1(heap["tenant2AppRef"][n].deps[1]).p = "tenant2Ref"

\* Both tenants' applications were built in one root context, each on
\* its own tenant.
C13_Witness ==
  /\ world = "tenant"
  /\ Returned
  /\ last.sameCtx
  /\ count("tenant1AppRef") = 1
  /\ count("tenant2AppRef") = 1
  /\ Dep1(Dep1(globalInstances["tenant1AppRef"])).p = "tenant1Ref"
  /\ Dep1(Dep1(globalInstances["tenant2AppRef"])).p = "tenant2Ref"

(***************************************************************************)
(* C14.                                                                    *)
(***************************************************************************)
\* The construction that invocation n of p's factory is has concluded: a
\* synchronous factory has returned or thrown; the promise of an async one
\* has settled and the handlers injectInternal attached to it have run.
Concluded(p, n) ==
  \/ heap[p][n].state \in {"made", "threw"}
  \/ /\ heap[p][n].state \in {"fulfilled", "rejected"}
     /\ \A i \in DOMAIN microtasks :
          ~(microtasks[i].kind = "engine" /\ microtasks[i].promise = Obj(p, n, "promise"))

\* C14: the resolver the object of a concluded construction keeps is
\* deactivated but still there, bound to the context it was made for, that of its owner's local
\* providers if the owner has any; a request through it comes back, never
\* with a cycle error (lazyRef asking for lazyRef gets a new lazyRef), and
\* getterRef's gives the local override of globalConfigRef, while a root
\* context gives globalConfigRef itself.
C14_CapturedResolverWorks ==
  /\ \A p \in Provided : \A n \in DOMAIN heap[p] :
       (heap[p][n].captured # 0 /\ Concluded(p, n))
         => LET r == heap[p][n].captured
            IN /\ r \in DOMAIN resolvers
               /\ ~resolvers[r].active
               /\ resolvers[r].stack # <<>>
               /\ resolvers[r].ctx \in DOMAIN ctxs
               /\ ProvidersOf(p) # <<>>
                    => ctxs[resolvers[r].ctx].localProviders = OwnTable(p)
  /\ (last.captured /\ last.status \in {"returned", "threw"})
       => /\ Returned
          /\ last.ref = "globalConfigRef" => last.val.p = "localConfigRef"
          /\ last.ref = "lazyRef"
               => last.val = Obj("lazyRef", last.cnt0 + 1, "inst")
  /\ \A i \in DOMAIN frames : last.captured => frames[i].exc \notin CircularErrors
  /\ (world = "captured" /\ Returned /\ ~last.captured /\ last.ref = "globalConfigRef")
       => last.val.p = "globalConfigRef"

\* A lazyRef's own method asked its kept resolver for lazyRef, which was
\* on that resolver's stack, and got a second lazyRef.
C14_Witness ==
  /\ world = "captured"
  /\ last.captured
  /\ Returned
  /\ last.ref = "lazyRef"
  /\ last.val = Obj("lazyRef", 2, "inst")
  /\ resolvers[heap["lazyRef"][1].captured].stack = <<"lazyRef">>

C16_ResetClearsEverything ==
  /\ [](\A p \in Provided :
          globalInstances[p] # NoObj => Of(heap, globalInstances[p]).epoch = nresets)
  /\ []((Returned /\ ModeOf(last.eff) = "global" /\ last.cache0 = 0 /\ last.cnt0 >= 1
           /\ heap[last.eff][last.cnt0].state \in {"made", "pending", "fulfilled"})
          => /\ count(last.eff) >= last.cnt0 + 1
             /\ last.val.p = last.eff
             /\ last.val.n = last.cnt0 + 1)
  /\ [][nresets' # nresets
          => /\ \A p \in Provided : globalInstances'[p] = NoObj
             /\ ctxs' = ctxs
             /\ resolvers' = resolvers
             /\ heap' = heap
             /\ suspended' = suspended
             /\ microtasks' = microtasks]_vars

\* In the same root context, after a reset made while the first promise
\* was in flight, inject ran the factory again and returned a second one.
C16_Witness ==
  /\ Returned
  /\ ModeOf(last.eff) = "global"
  /\ last.sameCtx
  /\ last.cache0 = 0
  /\ last.cnt0 = 1
  /\ heap[last.eff][1].state = "pending"
  /\ last.val = Obj(last.eff, 2, "promise")

(***************************************************************************)
(* C17.                                                                    *)
(***************************************************************************)
\* C17: an inject whose factory throws, by itself or because a dependency
\* it asked for failed, has invoked that factory once, hands its caller
\* the very error that was thrown and leaves no entry for the provider; no
\* entry of the cache is the object of an invocation that threw; and the
\* next inject of the provider invokes the factory once more and returns
\* that invocation's object when the factory no longer throws (an async
\* factory it started may, going on later, ask for the provider again).
C17_SyncFailureNotCached ==
  /\ (last.status = "threw" /\ ~ReachesCycle(last.eff))
       => /\ count(last.eff) = last.cnt0 + 1
          /\ heap[last.eff][count(last.eff)].state = "threw"
          /\ heap[last.eff][count(last.eff)].err = FactoryError
          /\ last.err = FactoryError
          /\ globalInstances[last.eff] = NoObj
  /\ \A i \in DOMAIN frames :
       (frames[i].exc # NoErr /\ ~MayMeetCycle(i)) => frames[i].exc = FactoryError
  /\ \A p \in Provided :
       globalInstances[p] # NoObj
         => Of(heap, globalInstances[p]).state \notin {"threw", "running"}
  /\ (Returned /\ last.cnt0 >= 1 /\ heap[last.eff][last.cnt0].state = "threw")
       => /\ count(last.eff) >= last.cnt0 + 1
          /\ (\A q \in Needs(last.eff) : ~IsAsync(q)) => count(last.eff) = last.cnt0 + 1
          /\ last.val = Obj(last.eff, last.cnt0 + 1, "inst")

\* wrapperRef's first construction failed with errorRef's error; the
\* second inject ran both factories again and returned a wrapperRef.
C17_Witness ==
  /\ world = "retry"
  /\ Returned
  /\ last.ref = "wrapperRef"
  /\ last.prevStatus = "threw"
  /\ heap["wrapperRef"][1].state = "threw"
  /\ heap["wrapperRef"][1].err = FactoryError
  /\ last.val = Obj("wrapperRef", 2, "inst")
  /\ count("errorRef") = 2

(***************************************************************************)
(* C18.                                                                    *)
(***************************************************************************)
\* C18: with nothing cached, inject(AsyncA), where the async factories of
\* AsyncA and AsyncB ask for each other before their first await, returns
\* AsyncA's promise and does not throw; that promise never fulfils and
\* rejects with "Circular dependency detected: AsyncA"; and once the
\* caller has been told of the rejection neither provider has an entry.
C18_AsyncCycleRejects ==
  (world = "acycle" /\ last.ref = "AsyncA" /\ last.cache0 = 0
     /\ last.status \in {"returned", "threw"})
    => /\ Returned
       /\ last.val = Obj("AsyncA", last.cnt0 + 1, "promise")
       /\ Of(heap, last.val).state \in {"pending", "rejected"}
       /\ Of(heap, last.val).state = "rejected"
            => Of(heap, last.val).err = "Circular dependency detected: AsyncA"
       /\ last.val \in observed
            => /\ Of(heap, last.val).state = "rejected"
               /\ globalInstances["AsyncA"] = NoObj
               /\ globalInstances["AsyncB"] = NoObj

\* The caller of inject(AsyncA) has been told of the rejection.
C18_Witness ==
  /\ world = "acycle"
  /\ last.ref = "AsyncA"
  /\ last.cache0 = 0
  /\ Returned
  /\ last.val \in observed
  /\ Of(heap, last.val).err = "Circular dependency detected: AsyncA"
  /\ count("AsyncB") = 1


(***************************************************************************)
(* C19.                                                                    *)
(***************************************************************************)
\* C19: every runInInjectionContext, the one a factory with local overrides
\* calls included, makes a root context of its own: no parent and no local
\* table, so the overrides of the scope around it do not apply inside it;
\* standalone instances are not shared between the outer and the inner
\* scope, global ones are.
C19_NestedRootsUnrelated ==
  /\ \A i \in 1..Len(frames) :
       frames[i].root # 0
         => /\ frames[i].root \in DOMAIN ctxs
            /\ ctxs[frames[i].root].parent = 0
            /\ \A p \in Provided : ctxs[frames[i].root].localProviders[p] = NoRef
            /\ i < Len(frames)
                 => /\ frames[i + 1].tctx = frames[i].root
                    /\ frames[i + 1].ref = Script(frames[i].ref, frames[i].inv)[frames[i].pc].ref
                    /\ StackOf(i + 1) = <<frames[i + 1].ref>>
  /\ world = "nestedrun"
       => \A i \in 1..Len(frames) :
            frames[i].ref = "hostRef"
              => LET d == frames[i].deps
                 IN /\ Len(d) >= 1 => d[1].p = "hostValue"
                    /\ Len(d) >= 2 => d[2].p = "baseRef"
                    /\ Len(d) >= 4 => /\ d[3].p = "plainRef"
                                       /\ d[4].p = "plainRef"
                                       /\ d[3] # d[4]
                    /\ Len(d) >= 6 => /\ d[5].p = "sharedRef"
                                       /\ d[5] = d[6]

C19_Witness ==
  /\ world = "nestedrun"
  /\ \E n \in DOMAIN heap["hostRef"] :
       /\ heap["hostRef"][n].state = "made"
       /\ Len(heap["hostRef"][n].deps) = 6
       /\ heap["hostRef"][n].deps[2].p = "baseRef"
       /\ heap["hostRef"][n].deps[5] = heap["hostRef"][n].deps[6]


(***************************************************************************)
(* C20.                                                                    *)
(***************************************************************************)
\* C20: the callbacks of several runInInjectionContext calls, taking turns
\* in any order, do not interfere: a root context is never removed or
\* changed, so its resolver stays usable across every suspension; an inject
\* through a root context resolves the provider asked for, whatever other
\* contexts are alive, and returns either the global cache's entry or the
\* object of the invocation it made itself; it fails only where a factory
\* throws or a cycle exists.
C20_ContextsDoNotInterfere ==
  /\ [][\A c \in Roots : c \in DOMAIN ctxs' /\ ctxs'[c] = ctxs[c]]_vars
  /\ []((last.status # "none" /\ ~last.captured)
          => /\ last.ctx \in Roots
             /\ last.eff = last.ref
             /\ Returned
                  => IF ModeOf(last.eff) = "global" /\ last.hit0 # NoObj
                     THEN last.val = last.hit0
                     ELSE /\ last.val.p = last.ref
                          /\ last.val.n = last.cnt0 + 1
             /\ last.status = "threw"
                  => \E q \in Provided :
                       OnCycle(q) \/ RedirectCycle(q)
                         \/ \E n \in 1..count(q) : Throws(q, n))

\* A call through one root context came back with an instance of its own
\* while a factory started through another root context is suspended.
C20_Witness ==
  /\ Returned
  /\ ~last.captured
  /\ ~last.sameCtx
  /\ ModeOf(last.eff) = "standalone"
  /\ last.val.n = 2
  /\ \E f \in suspended : f.tctx \in Roots \ {last.ctx}


C23_NoTargetReplacesOnlyItself ==
  /\ \A c \in DOMAIN ctxs : \A q \in Provided :
       findRefInContext(q, c) # q => OverridesOf(findRefInContext(q, c)) = q
  /\ world = "selfkey"
       => /\ \A i \in DOMAIN frames :
               frames[i].child # 0
                 => LET c == resolvers[frames[i].child].ctx
                    IN /\ ctxs[c].localProviders["newRef"] = "newRef"
                       /\ \A q \in Provided : findRefInContext(q, c) = q
          /\ \A n \in DOMAIN heap["plainServiceRef"] :
               heap["plainServiceRef"][n].state = "made"
                 => /\ heap["plainServiceRef"][n].deps[1].p = "originalRef"
                    /\ heap["plainServiceRef"][n].deps[2].p = "newRef"

\* plainServiceRef was built: inside the scope that lists newRef, its
\* factory asked for originalRef and got originalRef.
C23_Witness ==
  /\ world = "selfkey"
  /\ Returned
  /\ last.val = Obj("plainServiceRef", 1, "inst")
  /\ Of(heap, last.val).scoped = FALSE
  /\ Dep1(last.val) = Obj("originalRef", 1, "inst")
  /\ Of(heap, Dep1(last.val)).scoped


(***************************************************************************)
(* C24.                                                                    *)
(***************************************************************************)
\* The provider the request about to be made resolves to: a request from
\* outside (recorded in `last`), one by the running factory through the
\* inject it was given, or one through the root context of its own
\* runInInjectionContext.
Requested ==
  IF frames = <<>> THEN last'.eff
  ELSE IF AtOp("inject")
       THEN findRefInContext(TopScript[Top.pc].ref, resolvers[Given(Top)].ctx)
       ELSE IF AtOp("runin") /\ Top.root # 0 THEN TopScript[Top.pc].ref
       ELSE NoRef

\* C24: construction is lazy.  Before the first inject from outside no
\* factory has been invoked, whatever contexts were made; and a step
\* invokes a factory only if it is an inject, invokes one factory only,
\* that of the provider the request resolves to (not those the provider
\* lists as local providers), and only when the look-up in the cache found
\* nothing.
C24_ConstructionIsLazy ==
  /\ [](ncalls = 0 => Invocations = {})
  /\ [][Invocations' # Invocations
         => /\ frames = <<>> => ncalls' = ncalls + 1
            /\ Requested \in Provided
            /\ Invocations' = Invocations \cup {<<Requested, count(Requested) + 1>>}
            /\ CacheGet(Requested) = NoObj
            /\ frames' = Append(frames, frames'[Len(frames')])
            /\ frames'[Len(frames')].ref = Requested]_vars

\* getterRef was built and the provider it lists, localConfigRef, which
\* nothing has asked for, was not.
C24_Witness ==
  /\ world = "captured"
  /\ globalInstances["getterRef"] = Obj("getterRef", 1, "inst")
  /\ count("localConfigRef") = 0
  /\ Cardinality(Invocations) = 1


(***************************************************************************)
(* C25.                                                                    *)
(***************************************************************************)
\* The construction of p is still going on: an invocation of its factory
\* has not returned or thrown, or its promise has not settled.
Unfinished(p) == \E n \in DOMAIN heap[p] : heap[p][n].state \in {"running", "pending"}

\* C25: the stack a request consults holds only providers whose
\* construction is still going on, and a request fails with the circular
\* dependency error only for such a provider; also when the request is made
\* after an await by an async factory that was started while the provider
\* was being built.
C25_NoCycleErrorOnceBuilt ==
  /\ [](AtOp("inject")
          => \A i \in DOMAIN CurrentStack(Given(Top)) :
               Unfinished(CurrentStack(Given(Top))[i]))
  /\ [][(AtOp("inject") /\ Len(frames') = Len(frames)
           /\ frames'[Len(frames')].exc # NoErr)
         => Unfinished(Requested)]_vars


C27_CycleCheckBeforeCache ==
  /\ [][(AtOp("inject") /\ frames' # frames
           /\ Includes(CurrentStack(Given(Top)), Requested))
         => /\ Len(frames') = Len(frames)
            /\ frames'[Len(frames')].exc = CircularError(Requested)
            /\ frames'[Len(frames')].deps = Top.deps
            /\ Invocations' = Invocations
            /\ globalInstances' = globalInstances]_vars
  /\ [](world = "selfawait"
          => \A n \in DOMAIN heap["selfAsyncRef"] :
               /\ heap["selfAsyncRef"][n].state # "fulfilled"
               /\ heap["selfAsyncRef"][n].state = "rejected"
                    => heap["selfAsyncRef"][n].err = CircularError("selfAsyncRef"))

\* After its await the factory of loopRef asked for middleRef, whose
\* factory asked for loopRef: the cache holds loopRef's pending promise and
\* the request threw.
C27_Witness ==
  /\ world = "selfawait"
  /\ Len(frames) = 2
  /\ frames[1].ref = "loopRef"
  /\ frames[1].awaited
  /\ frames[2].ref = "middleRef"
  /\ frames[2].exc = CircularError("loopRef")
  /\ globalInstances["loopRef"] = Obj("loopRef", frames[1].inv, "promise")
  /\ heap["loopRef"][frames[1].inv].state = "pending"


(***************************************************************************)
(* C28.                                                                    *)
(***************************************************************************)
\* Resolver r exists and has not been deactivated.
Active(r) == r \in DOMAIN resolvers /\ resolvers[r].active

\* The resolvers made for the construction of p that x holds (inject and,
\* if the provider has local providers, childInject.inject) are active and
\* pass the stack they were made with, which ends in p.
InUse(x, p) ==
  \A r \in HeldBy(x) :
    /\ Active(r)
    /\ resolvers[r].stack # <<>>
    /\ resolvers[r].stack[Len(resolvers[r].stack)] = p
    /\ CurrentStack(r) = resolvers[r].stack

\* C28: the resolvers of a construction are active, passing the stack they
\* were made with, as long as the construction goes on: while a factory
\* runs, while an async factory is suspended and until the handlers on its
\* promise run; a step in which a synchronous factory returns or throws,
\* or in which the handlers of a settled promise run, leaves them
\* deactivated, and from then on a request through one passes the empty
\* stack (the object keeperRef's async factory made asks for keeperRef
\* through the resolver it kept and gets the cached promise, or a new one
\* after a reset).
C28_ActiveWhileConstructing ==
  /\ [](/\ \A i \in DOMAIN frames : InUse(frames[i], frames[i].ref)
        /\ \A f \in suspended : InUse(f, f.ref)
        /\ \A i \in DOMAIN microtasks :
              /\ microtasks[i].kind = "engine"
                   => InUse(microtasks[i], microtasks[i].promise.p)
              /\ microtasks[i].kind = "resume"
                   => InUse(microtasks[i], microtasks[i].frame.ref)
        /\ \A p \in Provided : \A n \in DOMAIN heap[p] :
              /\ \A j \in DOMAIN heap[p][n].reactions :
                    /\ heap[p][n].reactions[j].kind = "engine"
                         => InUse(heap[p][n].reactions[j], p)
                    /\ heap[p][n].reactions[j].kind = "resume"
                         => InUse(heap[p][n].reactions[j],
                                  heap[p][n].reactions[j].frame.ref)
              /\ (heap[p][n].captured # 0 /\ Concluded(p, n))
                    => /\ ~Active(heap[p][n].captured)
                       /\ CurrentStack(heap[p][n].captured) = <<>>
        /\ (world = "keeper" /\ last.captured /\ last.status \in {"returned", "threw"})
              => /\ Returned
                 /\ last.val = IF last.hit0 # NoObj THEN last.hit0
                               ELSE Obj("keeperRef", last.cnt0 + 1, "promise"))
  /\ [][(frames # <<>> /\ ~IsAsync(Top.ref) /\ Len(frames') < Len(frames))
          => \A r \in HeldBy(Top) : r \in DOMAIN resolvers' => ~resolvers'[r].active]_vars
  /\ [][(Idle /\ microtasks # <<>> /\ Head(microtasks).kind = "engine"
           /\ microtasks' = Tail(microtasks))
          => \A r \in HeldBy(Head(microtasks)) :
               r \in DOMAIN resolvers' => ~resolvers'[r].active]_vars

\* The promise of keeperRef fulfilled, its handlers ran, and the object it
\* made asked for keeperRef through the resolver it kept.
C28_Witness ==
  /\ world = "keeper"
  /\ last.captured
  /\ Returned
  /\ last.val = Obj("keeperRef", 1, "promise")
  /\ heap["keeperRef"][1].state = "fulfilled"
  /\ heap["keeperRef"][1].captured # 0
  /\ resolvers[heap["keeperRef"][1].captured].stack = <<"keeperRef">>
  /\ ~resolvers[heap["keeperRef"][1].captured].active


(***************************************************************************)
(* C29.                                                                    *)
(***************************************************************************)
\* The engine's handlers on promise x have run.
HandlersRan(x) ==
  /\ \A i \in DOMAIN microtasks :
        ~(microtasks[i].kind = "engine" /\ microtasks[i].promise = x)
  /\ \A j \in DOMAIN Of(heap, x).reactions : Of(heap, x).reactions[j].kind # "engine"

\* The latest inject from outside was made for a global provider when the
\* last thing a caller had been told of it was a rejection, and is over.
AfterRejection ==
  /\ last.status \in {"returned", "threw"}
  /\ ModeOf(last.eff) = "global"
  /\ last.seen0 # NoObj
  /\ Of(heap, last.seen0).state = "rejected"

\* C29 as stated: an inject made by a caller that has been told of the
\* rejection always misses the cache and invokes the factory again.
C29_RetryAlwaysMisses ==
  AfterRejection => last.hit0 = NoObj /\ count(last.eff) > last.cnt0

\* C29: when a caller is told that a promise it got from inject rejected,
\* the engine's handlers on that promise have run and the promise is not
\* the provider's entry; an inject made after that never returns that
\* promise: it misses the cache and invokes the factory again, or finds the
\* promise of a later invocation, stored since the eviction, and returns it.
C29_EvictionBeforeNotification ==
  /\ [][\A x \in observed' \ observed :
          Of(heap, x).state = "rejected"
            => HandlersRan(x) /\ globalInstances[x.p] # x]_vars
  /\ [](AfterRejection
          => /\ Returned
             /\ last.val # last.seen0
             /\ last.hit0 = NoObj
                  => /\ count(last.eff) > last.cnt0
                     /\ last.val = Obj(last.eff, last.cnt0 + 1, "promise")
             /\ last.hit0 # NoObj
                  => /\ last.val = last.hit0
                     /\ last.hit0.n > last.seen0.n
                     /\ count(last.eff) >= last.cnt0)

\* The caller was told of the rejection of a promise, asked again and
\* missed the cache: the factory ran a second time.
C29_Witness ==
  /\ AfterRejection
  /\ last.hit0 = NoObj
  /\ last.seen0 = Obj(last.eff, 1, "promise")
  /\ last.val = Obj(last.eff, 2, "promise")
  /\ count(last.eff) = 2
  /\ nresets = 0


(***************************************************************************)
(* C30.                                                                    *)
(***************************************************************************)
\* C30: the entry of an async global provider is a promise, never a value;
\* the promise of an invocation made since the last reset that is pending
\* or has fulfilled is the provider's entry; an inject that finds such an
\* entry returns that very promise and invokes nothing; and as long as the
\* factory stays suspended its promise is pending, is still the entry (if
\* no reset came) and no caller has been told anything.
C30_EntryIsThePromise ==
  /\ \A p \in Provided :
       (IsAsync(p) /\ globalInstances[p] # NoObj)
         => /\ globalInstances[p].k = "promise"
            /\ globalInstances[p].p = p
  /\ \A p \in Provided : \A n \in DOMAIN heap[p] :
       (IsAsync(p) /\ ModeOf(p) = "global" /\ heap[p][n].epoch = nresets
          /\ heap[p][n].state \in {"pending", "fulfilled"})
         => globalInstances[p] = Obj(p, n, "promise")
  /\ (last.status \in {"returned", "threw"} /\ IsAsync(last.eff)
        /\ ModeOf(last.eff) = "global" /\ last.hit0 # NoObj)
       => /\ Returned
          /\ last.val = last.hit0
          /\ IsPromise(last.val)
          /\ last.val.n <= last.cnt0
  /\ \A f \in suspended :
       /\ heap[f.ref][f.inv].state = "pending"
       /\ PromiseOf(f) \notin observed
       /\ (ModeOf(f.ref) = "global" /\ heap[f.ref][f.inv].epoch = nresets)
            => globalInstances[f.ref] = PromiseOf(f)

\* asyncRef's promise has fulfilled and the caller was told; a second
\* inject found it in the cache and returned it.
C30_Witness ==
  /\ world = "async"
  /\ Returned
  /\ last.eff = "asyncRef"
  /\ last.hit0 = Obj("asyncRef", 1, "promise")
  /\ last.seen0 = last.hit0
  /\ last.val = last.hit0
  /\ Of(heap, last.val).state = "fulfilled"
  /\ count("asyncRef") = 1
  /\ globalInstances["asyncRef"] = last.val


(***************************************************************************)
(* C31.                                                                    *)
(***************************************************************************)
\* C31: the Map of a root context is empty; the Map of a child context is
\* the one made from the `providers` list of a provider that has one, and
\* that of a running factory's child context is made from that factory's
\* provider; no step changes the Map or the parent of a context that stays
\* alive; and an inject through a root context's resolver has the provider
\* asked for as its effective provider.
C31_OverrideTablesFixed ==
  /\ [](/\ \A c \in DOMAIN ctxs :
              IF ctxs[c].parent = 0
              THEN \A q \in Provided : ctxs[c].localProviders[q] = NoRef
              ELSE \E p \in Provided :
                     /\ ProvidersOf(p) # <<>>
                     /\ ctxs[c].localProviders = OwnTable(p)
        /\ \A i \in DOMAIN frames :
              frames[i].child # 0
                => /\ ctxs[resolvers[frames[i].child].ctx].localProviders
                        = OwnTable(frames[i].ref)
                   /\ ctxs[resolvers[frames[i].child].ctx].parent = frames[i].tctx
        /\ (last.status # "none" /\ ~last.captured)
              => /\ last.ctx \in Roots
                 /\ last.eff = last.ref)
  /\ [][\A c \in DOMAIN ctxs \cap DOMAIN ctxs' : ctxs'[c] = ctxs[c]]_vars

\* getterRef was built and the context of its local providers, kept by the
\* resolver its object holds, still maps globalConfigRef to
\* localConfigRef; a later inject of globalConfigRef through the root
\* context resolved to globalConfigRef itself.
C31_Witness ==
  /\ world = "captured"
  /\ heap["getterRef"] # <<>>
  /\ heap["getterRef"][1].captured # 0
  /\ ctxs[resolvers[heap["getterRef"][1].captured].ctx].localProviders["globalConfigRef"]
       = "localConfigRef"
  /\ ncalls = 2
  /\ Returned
  /\ ~last.captured
  /\ last.ref = "globalConfigRef"
  /\ last.eff = "globalConfigRef"
  /\ last.val.p = "globalConfigRef"


(***************************************************************************)
(* C32.                                                                    *)
(***************************************************************************)
\* Nothing is left to run: no factory on the call stack, no reaction
\* queued, no factory waiting for something outside the engine.
Quiescent == frames = <<>> /\ microtasks = <<>> /\ suspended = {}

\* C32: every promise inject returned settles: when nothing is left to
\* run, no promise is still pending.
C32_EveryInjectSettles ==
  Quiescent => \A p \in Provided : \A n \in DOMAIN heap[p] : heap[p][n].state # "pending"


(***************************************************************************)
(* C33.                                                                    *)
(***************************************************************************)
\* The program's factories are synchronous and ask for dependencies only
\* through the inject they were passed.
SyncOnly ==
  \A p \in Provided :
    /\ ~IsAsync(p)
    /\ \A inv \in 1..2 : \A i \in DOMAIN Script(p, inv) :
         Script(p, inv)[i].op \in {"inject", "throw"}

\* What is left to do in one outward call, as a number: the steps each
\* running factory still has to take (its requests not yet made and its
\* return; one step when a failure is on its way out), those of a factory
\* weighing more than all that the factories it calls can ever do.
LongestScript ==
  CHOOSE m \in 0..8 :
    /\ \A p \in Provided : \A inv \in 1..2 : Len(Script(p, inv)) <= m
    /\ \E p \in Provided : \E inv \in 1..2 : Len(Script(p, inv)) = m

StepsLeft(i) ==
  IF frames[i].exc # NoErr THEN 1
  ELSE Len(Script(frames[i].ref, frames[i].inv)) - frames[i].pc
         + (IF i = Len(frames) THEN 2 ELSE 1)

RECURSIVE WorkLeft(_)
WorkLeft(i) ==
  IF i > Len(frames) \/ i > Cardinality(Provided) THEN 0
  ELSE StepsLeft(i) * (LongestScript + 3) ^ (Cardinality(Provided) - i) + WorkLeft(i + 1)

\* C33: in a program of synchronous factories, the providers on the stack
\* of a running factory are pairwise distinct, so no more factories are
\* running than there are providers; a running factory can always take a
\* step; and every step of an outward call leaves less to do, so the call
\* ends, by returning or throwing.
C33_SyncResolutionTerminates ==
  /\ [](SyncOnly
          => /\ Len(frames) <= Cardinality(Provided)
             /\ \A n \in DOMAIN frames :
                  /\ Len(StackOf(n)) = n
                  /\ \A i \in 1..n : StackOf(n)[i] = frames[i].ref
                  /\ \A i, j \in 1..n : StackOf(n)[i] = StackOf(n)[j] => i = j
             /\ frames # <<>>
                  => \/ AtOp("inject")
                     \/ AtOp("throw")
                     \/ Top.exc # NoErr
                     \/ Top.pc > Len(TopScript)
             /\ last.status \in {"none", "running", "returned", "threw"}
             /\ last.status = "running" <=> frames # <<>>)
  /\ [][(SyncOnly /\ frames # <<>> /\ frames' # frames)
          => WorkLeft(1)' < WorkLeft(1)]_vars

\* In the program of A, B and C, which ask for one another in a ring, all
\* three factories are running and C's request for A has failed.
C33_Witness ==
  /\ world = "cycle3"
  /\ Len(frames) = 3
  /\ StackOf(3) = <<"A", "B", "C">>
  /\ frames[3].exc = CircularError("A")


(***************************************************************************)
(* C34.                                                                    *)
(***************************************************************************)
\* C34: once the cache holds an entry for a provider, the entry stays the
\* same object until a reset or until the rejection handler of the promise
\* that is the entry deletes it; no inject replaces it by another object.
C34_EntryNeverReplaced ==
  [][\A p \in Provided :
       globalInstances[p] # NoObj
         => \/ globalInstances'[p] = globalInstances[p]
            \/ nresets' # nresets
            \/ /\ globalInstances'[p] = NoObj
               /\ IsPromise(globalInstances[p])
               /\ Of(heap, globalInstances[p]).state = "rejected"]_vars

(***************************************************************************)
(* C35.                                                                    *)
(***************************************************************************)
\* The factory on top of the call stack belongs to an overriding provider,
\* was started in a context where a request for its target is redirected to
\* it, and is about to ask the inject it was given for that target.
AsksForItsTarget ==
  /\ AtOp("inject")
  /\ OverridesOf(Top.ref) # NoRef
  /\ TopScript[Top.pc].ref = OverridesOf(Top.ref)
  /\ findRefInContext(OverridesOf(Top.ref), Top.tctx) = Top.ref

\* The request fails with the cycle error that names the provider itself:
\* nothing is constructed and the cache is left alone.
HandedItsOwnRequest ==
  /\ Len(frames') = Len(frames)
  /\ frames'[Len(frames)].exc = CircularError(Top.ref)
  /\ frames'[Len(frames)].deps = Top.deps
  /\ heap' = heap
  /\ globalInstances' = globalInstances

\* C35, as the specification states it: an overriding provider's factory,
\* running because a request for its target was redirected to it, that asks
\* the inject it was passed for that target is redirected to itself and
\* fails with the cycle error naming it, whatever the provider.
C35_OverrideNeverDelegates ==
  [][AsksForItsTarget => HandedItsOwnRequest]_vars

\* C35: the same for an overriding provider that has no local provider of
\* its own for its target, before or after its factory's first suspension;
\* one that has is given what its own table says.
C35_OverrideWithoutOwnTableNeverDelegates ==
  [][AsksForItsTarget
       => IF OwnTable(Top.ref)[OverridesOf(Top.ref)] = NoRef
          THEN HandedItsOwnRequest
          ELSE findRefInContext(OverridesOf(Top.ref), resolvers[Given(Top)].ctx)
                 = OwnTable(Top.ref)[OverridesOf(Top.ref)]]_vars

\* shadowRef, run in shadowOwnerRef's scope, threw the cycle error naming
\* itself at once; lateShadowRef, run in lateOwnerRef's scope, asked after
\* its timer and its promise rejected with the error naming it; neither was
\* given a targetRef, which was never built.
C35_Witness ==
  /\ world = "delegate"
  /\ heap["shadowRef"] # <<>>
  /\ heap["shadowRef"][1].state = "threw"
  /\ heap["shadowRef"][1].err = "Circular dependency detected: shadowRef"
  /\ heap["lateShadowRef"] # <<>>
  /\ heap["lateShadowRef"][1].state = "rejected"
  /\ heap["lateShadowRef"][1].err = "Circular dependency detected: lateShadowRef"
  /\ heap["targetRef"] = <<>>

(***************************************************************************)
(* C36.                                                                    *)
(***************************************************************************)
\* The factory on top of the call stack is about to ask for a provider that
\* its context replaces by a global provider.
RedirectedToGlobal ==
  /\ AtOp("inject")
  /\ findRefInContext(TopScript[Top.pc].ref, resolvers[Given(Top)].ctx) # TopScript[Top.pc].ref
  /\ ModeOf(findRefInContext(TopScript[Top.pc].ref, resolvers[Given(Top)].ctx)) = "global"

\* C36: a request for a provider that is redirected to a global overriding
\* provider leaves the cache as it is, and either fails with the cycle
\* error, or is handed the entry kept under the overriding provider, which
\* is an object of that provider, or starts the overriding provider's
\* factory; when the factory of an overriding global provider returns, the
\* cache changes under that provider's key alone, to the object it made; so
\* with configRef cached, a localServiceRef built next has its serviceRef
\* rest on a localConfig kept under localConfig, and configRef's entry is
\* the one it was.
C36_OverrideCachedUnderItsOwnKey ==
  /\ [][RedirectedToGlobal
          => LET t == TopScript[Top.pc].ref
                 o == findRefInContext(t, resolvers[Given(Top)].ctx)
                 n == Len(frames)
             IN /\ globalInstances' = globalInstances
                /\ \/ /\ Len(frames') = n
                      /\ frames'[n].exc = CircularError(o)
                   \/ /\ Len(frames') = n
                      /\ frames'[n].deps = Append(Top.deps, globalInstances[o])
                      /\ globalInstances[o].p = o
                   \/ /\ Len(frames') = n + 1
                      /\ frames'[n + 1].ref = o
                      /\ globalInstances[o] = NoObj]_vars
  /\ [][(frames # <<>> /\ OverridesOf(Top.ref) # NoRef /\ globalInstances' # globalInstances)
          => /\ \A q \in Provided \ {Top.ref} : globalInstances'[q] = globalInstances[q]
             /\ globalInstances'[Top.ref] \in {ResultOf(Top), PromiseOf(Top)}
             /\ ModeOf(Top.ref) = "global"]_vars
  /\ [](( /\ world = "override" /\ Returned /\ last.ref = "localServiceRef"
          /\ last.prev = NoObj /\ last.hit0 = NoObj
          /\ globalInstances["serviceRef"] = Obj("serviceRef", 1, "inst")
          /\ heap["serviceRef"][1].scoped )
          => /\ Dep1(Obj("serviceRef", 1, "inst")).p = "localConfig"
             /\ globalInstances["localConfig"] = Dep1(Obj("serviceRef", 1, "inst"))
             /\ globalInstances["configRef"].p \in {"configRef", NoRef})

\* configRef was injected from a root and cached; then localServiceRef was
\* built: its serviceRef asked for configRef, got a new localConfig, which
\* is kept under localConfig while configRef's entry is the first call's.
C36_Witness ==
  /\ world = "override"
  /\ Returned
  /\ last.ref = "localServiceRef"
  /\ ncalls = 2
  /\ nresets = 0
  /\ globalInstances["configRef"] = Obj("configRef", 1, "inst")
  /\ globalInstances["localConfig"] = Obj("localConfig", 1, "inst")
  /\ Dep1(Obj("serviceRef", 1, "inst")) = Obj("localConfig", 1, "inst")
  /\ count("configRef") = 1

(***************************************************************************)
(* C37.                                                                    *)
(***************************************************************************)
\* The contexts from c up to its root, nearest first.
RECURSIVE Upward(_)
Upward(c) == IF c = 0 THEN <<>> ELSE <<c>> \o Upward(ctxs[c].parent)

\* C37: the effective provider of a request is what the nearest context on
\* the way up that has the provider asked for as a key holds for it, and
\* the provider itself when none has; what the same or an enclosing context
\* holds for that answer plays no part.  So chainOwnerRef, which lists
\* firstLayerRef (for baseValueRef) and secondLayerRef (for firstLayerRef),
\* and innerChainRef, which lists firstLayerRef and is built in the scope of
\* outerChainRef, which lists secondLayerRef, are both built from a
\* firstLayerRef.
C37_LookupIsOneStep ==
  /\ \A c \in DOMAIN ctxs : \A t \in Provided :
       LET up == Upward(c)
           K == {k \in DOMAIN up : ctxs[up[k]].localProviders[t] # NoRef}
       IN findRefInContext(t, c) =
            IF K = {} THEN t
            ELSE ctxs[up[CHOOSE k \in K : \A h \in K : k <= h]].localProviders[t]
  /\ \A p \in {"chainOwnerRef", "innerChainRef"} \cap Provided :
       \A n \in DOMAIN heap[p] :
          heap[p][n].state = "made" => heap[p][n].deps[1].p = "firstLayerRef"
  /\ \A i \in DOMAIN frames :
       (frames[i].ref = "secondLayerRef" /\ world = "chain") => i = 1

\* innerChainRef's factory, running in outerChainRef's scope, has been
\* given a firstLayerRef for baseValueRef, although its parent context
\* holds secondLayerRef for firstLayerRef.
C37_Witness ==
  /\ world = "chain"
  /\ Len(frames) = 2
  /\ frames[1].ref = "outerChainRef"
  /\ frames[2].ref = "innerChainRef"
  /\ frames[2].deps # <<>>
  /\ frames[2].deps[1].p = "firstLayerRef"
  /\ ctxs[ctxs[resolvers[frames[2].child].ctx].parent].localProviders["firstLayerRef"]
       = "secondLayerRef"

(***************************************************************************)
(* C38.                                                                    *)
(***************************************************************************)
\* The places of a provider's list whose entry is registered for t.
PlacesFor(p, t) ==
  {k \in DOMAIN ProvidersOf(p) :
     (IF OverridesOf(ProvidersOf(p)[k]) # NoRef
      THEN OverridesOf(ProvidersOf(p)[k]) ELSE ProvidersOf(p)[k]) = t}

\* C38: in the context made for a running factory whose provider has local
\* providers, the table holds for each ref the entry listed last for it,
\* and a request the factory makes for the ref is answered by that entry;
\* so pairOwnerRef (earlyRef, then lateRef, both for settingRef) is built
\* from a lateRef, selfFirstOwnerRef (settingRef itself, then earlyRef) from
\* an earlyRef, selfLastOwnerRef (lateRef, then settingRef itself) from a
\* settingRef, and no factory of an entry listed earlier runs under them.
C38_LastListedWins ==
  /\ \A i \in DOMAIN frames : \A t \in Provided :
       (frames[i].child # 0 /\ PlacesFor(frames[i].ref, t) # {})
         => LET K == PlacesFor(frames[i].ref, t)
                latest == ProvidersOf(frames[i].ref)[CHOOSE k \in K : \A h \in K : h <= k]
            IN /\ ctxs[resolvers[frames[i].child].ctx].localProviders[t] = latest
               /\ findRefInContext(t, resolvers[Given(frames[i])].ctx) = latest
  /\ world = "lastwins"
       => /\ \A i \in DOMAIN frames :
               i > 1 => frames[i].ref =
                          CASE frames[i - 1].ref = "pairOwnerRef" -> "lateRef"
                            [] frames[i - 1].ref = "selfFirstOwnerRef" -> "earlyRef"
                            [] frames[i - 1].ref = "selfLastOwnerRef" -> "settingRef"
                            [] OTHER -> NoRef
          /\ \A n \in DOMAIN heap["pairOwnerRef"] :
               heap["pairOwnerRef"][n].state = "made"
                 => heap["pairOwnerRef"][n].deps[1].p = "lateRef"
          /\ \A n \in DOMAIN heap["selfFirstOwnerRef"] :
               heap["selfFirstOwnerRef"][n].state = "made"
                 => heap["selfFirstOwnerRef"][n].deps[1].p = "earlyRef"
          /\ \A n \in DOMAIN heap["selfLastOwnerRef"] :
               heap["selfLastOwnerRef"][n].state = "made"
                 => heap["selfLastOwnerRef"][n].deps[1].p = "settingRef"

\* pairOwnerRef and selfFirstOwnerRef were built with nothing cached before
\* either: one from a lateRef with earlyRef's factory never invoked until
\* then, the other from an earlyRef; settingRef's factory was never invoked.
C38_Witness ==
  /\ world = "lastwins"
  /\ Returned
  /\ nresets = 0
  /\ heap["pairOwnerRef"] # <<>>
  /\ heap["pairOwnerRef"][1].state = "made"
  /\ heap["pairOwnerRef"][1].deps[1] = Obj("lateRef", 1, "inst")
  /\ heap["selfFirstOwnerRef"] # <<>>
  /\ heap["selfFirstOwnerRef"][1].state = "made"
  /\ heap["selfFirstOwnerRef"][1].deps[1] = Obj("earlyRef", 1, "inst")
  /\ count("settingRef") = 0

(***************************************************************************)
(* C39.                                                                    *)
(***************************************************************************)
\* An inject is made from outside any factory through the resolver of a
\* root context.
RootInjectStep == frames = <<>> /\ ncalls' = ncalls + 1 /\ ~last'.captured

\* C39: an inject through a root context's resolver does the same whether
\* or not the runInInjectionContext call that made the context has
\* returned: the provider asked for is the effective one; when the cache
\* holds an entry for it the entry is returned, and otherwise its factory
\* is started in that context with a stack that holds the provider alone.
\* A root context stays as it is after the call returned.  No inject gives
\* its caller nothing (a factory is never handed an absent dependency, a
\* call that returned has returned an object of the effective provider),
\* and the only errors are a factory's own and the cycle error.
C39_NoActiveContextNeeded ==
  /\ [][RootInjectStep
          => /\ last'.ctx \in Roots
             /\ last'.eff = last'.ref
             /\ IF CacheHit(last'.ref)
                THEN /\ last'.status = "returned"
                     /\ last'.val = CacheGet(last'.ref)
                     /\ frames' = <<>>
                ELSE /\ Len(frames') = 1
                     /\ frames'[1].ref = last'.ref
                     /\ frames'[1].tctx = last'.ctx
                     /\ resolvers'[frames'[1].inj].stack = <<last'.ref>>
                     /\ Len(heap'[last'.ref]) = count(last'.ref) + 1]_vars
  /\ [](/\ returned \subseteq Roots
        /\ \A c \in returned : \A q \in Provided : ctxs[c].localProviders[q] = NoRef
        /\ last.status = "threw" => last.err \in CircularErrors \cup {FactoryError}
        /\ Returned => (last.val # NoObj /\ last.val.p = last.eff)
        /\ \A i \in DOMAIN frames :
             /\ frames[i].exc \in CircularErrors \cup {FactoryError, NoErr}
             /\ \A k \in DOMAIN frames[i].deps : frames[i].deps[k] # NoObj)

\* After the runInInjectionContext call that made the root context had
\* returned, its resolver was asked for localServiceRef with nothing
\* cached: the factories ran and the call returned a localServiceRef built
\* on a serviceRef built on the override.
C39_Witness ==
  /\ world = "override"
  /\ last.after
  /\ Returned
  /\ last.ref = "localServiceRef"
  /\ last.hit0 = NoObj
  /\ last.val = Obj("localServiceRef", 1, "inst")
  /\ Dep1(Dep1(last.val)).p = "localConfig"

====
